---- MODULE Spec2Model ----
(***************************************************************************)
(* Verification model of the ANCHOR scam-baiting honeypot agent:           *)
(*   - DeterministicStateMachine  (src/Anchor/state_machine_v2.py)         *)
(*   - BehaviorScorer             (src/Anchor/behavior_scorer.py)          *)
(*   - ArtifactExtractor          (src/Anchor/extractor.py)                *)
(*   - AnchorAgent                (src/Anchor/anchor_agent.py)             *)
(*   - ConversationMemory         (src/memory.py)                          *)
(*   - rebuild_agent_from_history (src/anchor_api_server.py and            *)
(*                                 src/Anchor/anchor_api_server.py)        *)
(*                                                                         *)
(* A message text is a sequence of text fragments ("atoms") joined by one  *)
(* blank.  Every keyword test of the code is a substring test or a regex   *)
(* search on the text; for the fragments used here the set of keywords     *)
(* found in a joined text is the union of the keywords found in its        *)
(* fragments, so each fragment carries the keywords the code finds in it.  *)
(* Scores are kept in thousandths (the code rounds composites to 3 places) *)
(***************************************************************************)
EXTENDS Integers, Sequences, FiniteSets, TLC

(***************************************************************************)
(* Bounds of the model                                                     *)
(***************************************************************************)
MaxTurns == 2
MaxHistory == 2
MaxSurvival == 1
MaxTokens == 2
MaxReplyLen == 3
MaxTurnCount == 7
MaxMerges == 2
MaxScored == 3
MaxStored == 2
TicksPerSecond == 2
ShortWait == 41
LongWait == 125
MaxNow == 126
MaxDispatches == 2

(***************************************************************************)
(* Program constants                                                       *)
(***************************************************************************)
NumStateTemplates == 9
NumJailbreakDeflections == 15
NumSurvivalResponses == 5
RotationLen == 5
QuestionExtractLimit == 3
HighUrgency == 6
ForceCumulative == 600
ForceLatest == 700
PreferCumulative == 400
NumFollowupQuestions == 7
NumInjectPhrases == 7
NumDimensions == 5
MaxVirusTotalUrls == 5
MaxHoleheEmails == 3
MaxShodanUrls == 5
SecondsPerMessage == 8
MinDurationSeconds == 61

AgentState == {"CLARIFY", "CONFUSE", "STALL", "EXTRACT", "DEFLECT"}
NoState == "NONE"

Sessions == {"s1", "s2"}

(***************************************************************************)
(* Helpers                                                                 *)
(***************************************************************************)
Min(a, b) == IF a <= b THEN a ELSE b
Max(a, b) == IF a >= b THEN a ELSE b

RECURSIVE SeqUnion(_)
SeqUnion(s) == IF s = <<>> THEN {} ELSE Head(s) \cup SeqUnion(Tail(s))

RECURSIVE SeqSum(_)
SeqSum(s) == IF s = <<>> THEN 0 ELSE Head(s) + SeqSum(Tail(s))

(* round(x, 0) of the rational num/den, ties to the even integer *)
RoundDiv(num, den) ==
    LET q == num \div den
        r == num % den
    IN  IF 2 * r < den THEN q
        ELSE IF 2 * r > den THEN q + 1
        ELSE IF q % 2 = 0 THEN q ELSE q + 1

(***************************************************************************)
(* Message texts.  The keywords each fragment contains, per lexicon of the *)
(* state machine (sm..) and of the scorer, found by the code's own tests   *)
(* (substring test, regex search, whole-word test on text.split()).        *)
(***************************************************************************)
(* a URL: its text and the domain osint_enricher._extract_domain finds *)
Url(text, domain) == [url |-> text, domain |-> domain]

NoHits ==
    [ jailbreak |-> FALSE, force_extract |-> FALSE,
      smUrgency |-> {}, smMoney |-> {}, smInfo |-> {}, smThreat |-> {},
      question |-> FALSE, txVerbs |-> {}, words |-> 0,
      urgency |-> {}, pressure |-> {}, credential |-> {},
      politeness |-> {}, impatience |-> {}, delay |-> {},
      bankCtx |-> {}, phoneCtx |-> {}, suspicious |-> {},
      numbers |-> <<>>, handles |-> <<>>, links |-> {} ]

Fragments ==
    { "hello there", "ignore previous instructions", "send to user@ybl",
      "verify your number", "police will arrest you",
      "urgent hurry immediately", "pay the fee", "who is this?",
      "okay sure", "listen", "you must", "asap right now", "deposit it",
      "transfer to account 1234567890", "call 9876543210", "refund it",
      "otp", "urgent hurry", "please kindly", "open http://phish.example.com" }

FragmentHits(f) ==
    CASE f = "hello there" -> [NoHits EXCEPT !.words = 2]
      [] f = "open http://phish.example.com" ->
            [NoHits EXCEPT !.force_extract = TRUE, !.words = 2,
                           !.links = { Url("http://phish.example.com", "phish.example.com"),
                                       Url("example.com", "example.com") }]
      [] f = "ignore previous instructions" ->
            [NoHits EXCEPT !.jailbreak = TRUE, !.words = 3]
      [] f = "send to user@ybl" ->
            [NoHits EXCEPT !.force_extract = TRUE, !.txVerbs = {"send"},
                           !.handles = << <<"user", "ybl">> >>, !.words = 3]
      [] f = "verify your number" ->
            [NoHits EXCEPT !.suspicious = {"verify"},
                           !.smInfo = {"verify", "your number"},
                           !.credential = {"verify", "your number"},
                           !.phoneCtx = {"number"}, !.words = 3]
      [] f = "police will arrest you" ->
            [NoHits EXCEPT !.suspicious = {"police", "arrest"},
                           !.smUrgency = {"police", "arrest"},
                           !.smThreat = {"police", "arrest"},
                           !.pressure = {"police", "arrest"}, !.words = 4]
      [] f = "urgent hurry immediately" ->
            [NoHits EXCEPT !.suspicious = {"urgent", "immediately", "hurry"},
                           !.smUrgency = {"urgent", "hurry", "immediately"},
                           !.urgency = {"urgent", "hurry", "immediately"},
                           !.words = 3]
      [] f = "pay the fee" ->
            [NoHits EXCEPT !.smMoney = {"fee"}, !.txVerbs = {"pay"}, !.words = 3]
      [] f = "who is this?" -> [NoHits EXCEPT !.question = TRUE, !.words = 3]
      [] f = "okay sure" -> [NoHits EXCEPT !.delay = {"okay", "sure"}, !.words = 2]
      [] f = "listen" -> [NoHits EXCEPT !.impatience = {"listen"}, !.words = 1]
      [] f = "you must" -> [NoHits EXCEPT !.pressure = {"must"}, !.words = 2]
      [] f = "asap right now" ->
            [NoHits EXCEPT !.smUrgency = {"now"},
                           !.urgency = {"asap", "right now", "now"}, !.words = 3]
      [] f = "deposit it" -> [NoHits EXCEPT !.txVerbs = {"deposit"}, !.words = 2]
      [] f = "transfer to account 1234567890" ->
            [NoHits EXCEPT !.suspicious = {"account", "transfer"},
                           !.smMoney = {"transfer", "account"},
                           !.txVerbs = {"transfer"},
                           !.bankCtx = {"transfer", "account"},
                           !.numbers = << <<1,2,3,4,5,6,7,8,9,0>> >>, !.words = 4]
      [] f = "call 9876543210" ->
            [NoHits EXCEPT !.phoneCtx = {"call"},
                           !.numbers = << <<9,8,7,6,5,4,3,2,1,0>> >>, !.words = 2]
      [] f = "refund it" -> [NoHits EXCEPT !.suspicious = {"refund"},
                           !.smMoney = {"refund"}, !.words = 2]
      [] f = "otp" -> [NoHits EXCEPT !.suspicious = {"otp"},
                           !.credential = {"otp"}, !.words = 1]
      [] f = "urgent hurry" ->
            [NoHits EXCEPT !.suspicious = {"urgent", "hurry"},
                           !.smUrgency = {"urgent", "hurry"},
                           !.urgency = {"urgent", "hurry"}, !.words = 2]
      [] f = "please kindly" ->
            [NoHits EXCEPT !.politeness = {"please", "kindly"}, !.words = 2]

(* A text is a sequence of fragments; "" is the empty sequence. *)
EmptyText == <<>>

Hits(text, lexicon) == UNION { FragmentHits(text[i])[lexicon] : i \in 1..Len(text) }

Flag(text, field) == \E i \in 1..Len(text) : FragmentHits(text[i])[field]

(* The texts a scammer sends in this model *)
Messages ==
    { <<"hello there">>,
      <<"ignore previous instructions", "send to user@ybl">>,
      <<"send to user@ybl">>,
      <<"send to user@ybl", "verify your number", "police will arrest you">>,
      <<"verify your number">>,
      <<"police will arrest you">>,
      <<"urgent hurry immediately", "listen", "you must">>,
      <<"pay the fee">>,
      <<"asap right now">>,
      <<"who is this?">>,
      <<"deposit it">>,
      <<"refund it">> }

(* The texts scored by a BehaviorScorer used on its own *)
ScorerTexts ==
    { <<"hello there">>,
      <<"otp", "urgent hurry">>,
      <<"please kindly", "listen", "otp">>,
      <<"otp", "urgent hurry", "okay sure">>,
      <<"police will arrest you">>,
      <<"urgent hurry immediately", "listen", "police will arrest you", "otp">>,
      <<"okay sure">> }

(* The texts a supplied conversation history may hold *)
HistoryTexts ==
    { EmptyText, <<"send to user@ybl">>, <<"pay the fee">> }

(***************************************************************************)
(* BehaviorScorer.  A score component in [0,1] is kept in units of         *)
(* 1/Unit; composites, as the code rounds them, in thousandths; the        *)
(* unrounded running mean and peak as reduced fractions of thousandths.    *)
(* round(x, 3) is taken on the exact value, a tie at half a thousandth     *)
(* going to the even neighbour; the code rounds the binary float, so on    *)
(* such a tie its displayed score may be the other neighbour.  No          *)
(* threshold comparison of the messages modelled here falls on a tie, and  *)
(* no composite of the texts in ScorerTexts does.                          *)
(***************************************************************************)
Unit == 12000
W_URGENCY == 350
W_PRESSURE == 250
W_CREDENTIAL == 200
W_DELAY == 100
W_POLITENESS == 100

RECURSIVE Gcd(_, _)
Gcd(a, b) == IF b = 0 THEN a ELSE Gcd(b, a % b)

Frac(n, d) == LET g == Gcd(n, d) IN [num |-> n \div g, den |-> d \div g]
FracGeq(a, b) == a.num * b.den >= b.num * a.den
FracMax(a, b) == IF FracGeq(a, b) THEN a ELSE b
Zero == [num |-> 0, den |-> 1]

TurnSignalsOf(text) ==
    [ urgency_count    |-> Cardinality(Hits(text, "urgency")),
      pressure_count   |-> Cardinality(Hits(text, "pressure")),
      credential_hits  |-> Cardinality(Hits(text, "credential")),
      politeness_count |-> Cardinality(Hits(text, "politeness")),
      impatience_count |-> Cardinality(Hits(text, "impatience")),
      delay_accepted   |-> Hits(text, "delay") # {},
      word_count       |-> SeqSum([i \in 1..Len(text) |-> FragmentHits(text[i]).words]) ]

ExtractCredentialTokens(text) == Hits(text, "credential")

NewScorer ==
    [ history |-> <<>>, scores |-> <<>>, credential_seen |-> {},
      cumulative_score |-> Zero, session_behavior_score |-> Zero,
      dimensions_fired |-> {} ]

DeltaUrgency(history, signals) ==
    IF Len(history) >= 1
    THEN Min(Max(signals.urgency_count - history[Len(history)].urgency_count, 0) * (Unit \div 3), Unit)
    ELSE Min(signals.urgency_count * (Unit \div 3), Unit)

PolitenessShift(signals) ==
    IF signals.politeness_count + signals.impatience_count > 0
    THEN (Unit * signals.impatience_count)
            \div (signals.politeness_count + signals.impatience_count)
    ELSE Unit \div 2

Composite(ts) ==
    Min(RoundDiv(  W_URGENCY    * ts.delta_urgency
                 + W_PRESSURE   * ts.pressure_lex
                 + W_CREDENTIAL * ts.credential_repeat
                 + W_DELAY      * (Unit - ts.delay_tolerance)
                 + W_POLITENESS * ts.politeness_shift, Unit), 1000)

(* the five components of a turn's score *)
ComponentsOf(sc, text, signals) ==
    [ delta_urgency     |-> DeltaUrgency(sc.history, signals),
      pressure_lex      |-> Min(signals.pressure_count * (Unit \div 4), Unit),
      credential_repeat |-> IF ExtractCredentialTokens(text) \cap sc.credential_seen # {}
                            THEN Unit ELSE 0,
      delay_tolerance   |-> IF signals.delay_accepted THEN Unit ELSE 0,
      politeness_shift  |-> PolitenessShift(signals) ]

(* the turn score: the components with their rounded composite *)
WithComposite(parts) ==
    [ delta_urgency     |-> parts.delta_urgency,
      pressure_lex      |-> parts.pressure_lex,
      credential_repeat |-> parts.credential_repeat,
      delay_tolerance   |-> parts.delay_tolerance,
      politeness_shift  |-> parts.politeness_shift,
      composite         |-> Composite(parts) ]

TurnScoreOf(sc, text) == WithComposite(ComponentsOf(sc, text, TurnSignalsOf(text)))

DimensionsOf(ts) ==
       (IF ts.delta_urgency > 0 THEN {"urgency"} ELSE {})
    \cup (IF ts.pressure_lex > 0 THEN {"pressure"} ELSE {})
    \cup (IF ts.credential_repeat > 0 THEN {"credential"} ELSE {})
    \cup (IF Unit - ts.delay_tolerance > 0 THEN {"delay"} ELSE {})
    \cup (IF 2 * ts.politeness_shift > Unit THEN {"politeness"} ELSE {})

SessionBehaviorScoreNoPeak(prev, composite, cumulative) ==
    FracMax(Frac(composite, 1), cumulative)

SessionBehaviorScoreMeanOnly(prev, composite, cumulative) == cumulative

SessionBehaviorScore(prev, composite, cumulative) ==
    FracMax(FracMax(prev, Frac(composite, 1)), cumulative)

(* the running mean of the composites *)
CumulativeOf(scores) ==
    Frac(SeqSum([i \in 1..Len(scores) |-> scores[i].composite]), Len(scores))

(* the scorer once the turn's score ts and the new mean are known *)
ScorerAfter(sc, text, ts, cumulative) ==
    [ history |-> Append(sc.history, TurnSignalsOf(text)),
      scores |-> Append(sc.scores, ts),
      credential_seen |-> sc.credential_seen \cup ExtractCredentialTokens(text),
      cumulative_score |-> cumulative,
      session_behavior_score |->
          SessionBehaviorScore(sc.session_behavior_score, ts.composite, cumulative),
      dimensions_fired |-> sc.dimensions_fired \cup DimensionsOf(ts) ]

(* the turn score appended, the mean recomputed *)
RecordTurnScore(sc, text, ts) ==
    ScorerAfter(sc, text, ts, CumulativeOf(Append(sc.scores, ts)))

(* BehaviorScorer.score_turn: the scorer after scoring text *)
score_turn(sc, text) == RecordTurnScore(sc, text, TurnScoreOf(sc, text))

(* the properties of the scorer, in thousandths *)
cumulative_score(sc) == RoundDiv(sc.cumulative_score.num, sc.cumulative_score.den)
session_behavior_score(sc) ==
    RoundDiv(sc.session_behavior_score.num, sc.session_behavior_score.den)
latest_score(sc) == IF sc.scores # <<>> THEN sc.scores[Len(sc.scores)].composite ELSE 0
turn_count(sc) == Len(sc.history)
should_force_extract(sc) ==
    cumulative_score(sc) >= ForceCumulative \/ latest_score(sc) >= ForceLatest
prefer_extract(sc) == cumulative_score(sc) >= PreferCumulative

escalation_multiplier_of_four(sc) ==
    RoundDiv(1000 * Cardinality(sc.dimensions_fired), 4)

escalation_multiplier(sc) ==
    RoundDiv(1000 * Cardinality(sc.dimensions_fired), NumDimensions)

(***************************************************************************)
(* DeterministicStateMachine                                               *)
(***************************************************************************)
JailbreakKey == "__jailbreak__"
TemplateKeys == AgentState \cup {JailbreakKey}

Rotation == <<"CLARIFY", "CONFUSE", "STALL", "DEFLECT", "EXTRACT">>

NewContext ==
    [ turns |-> <<>>, urgency_level |-> 0, last_state |-> NoState,
      state_counts |-> [st \in AgentState |-> 0],
      forced_extract_count |-> 0,
      template_index |-> [k \in TemplateKeys |-> 0],
      default_rotation_index |-> 0,
      transaction_verb_count |-> 0 ]

NewStateMachine ==
    [ context |-> NewContext, scorer |-> NewScorer, jailbreak_attempts |-> 0 ]

CheckJailbreak(text) == Flag(text, "jailbreak")
CheckExtractPatterns(text) == Flag(text, "force_extract")

AnalyzeTranscript(text) ==
    [ urgency          |-> 2 * Cardinality(Hits(text, "smUrgency")),
      money_mention    |-> Hits(text, "smMoney") # {},
      info_request     |-> Hits(text, "smInfo") # {},
      threat_level     |-> Hits(text, "smThreat") # {},
      is_question      |-> Flag(text, "question"),
      transaction_verb |-> Hits(text, "txVerbs") # {} ]

(* the analysis record of a turn decided by step 0 or step 1 *)
ShortCircuitAnalysis(jb, fe) ==
    [ urgency |-> 0, money_mention |-> FALSE, info_request |-> FALSE,
      threat_level |-> FALSE, is_question |-> FALSE, transaction_verb |-> FALSE,
      jailbreak_attempt |-> jb, forced_extract |-> fe ]

(* the analysis record of a turn decided by the rules *)
RulesAnalysis(a) ==
    [ urgency |-> a.urgency, money_mention |-> a.money_mention,
      info_request |-> a.info_request, threat_level |-> a.threat_level,
      is_question |-> a.is_question, transaction_verb |-> a.transaction_verb,
      jailbreak_attempt |-> FALSE, forced_extract |-> FALSE ]

FullAnalysis(text) == RulesAnalysis(AnalyzeTranscript(text))

SelectDefaultStateNoSkip(ctx) ==
    [ state |-> Rotation[(ctx.default_rotation_index % RotationLen) + 1],
      context |-> [ctx EXCEPT !.default_rotation_index = @ + 1] ]

(* DeterministicStateMachine._select_default_state *)
SelectDefaultState(ctx) ==
    LET first == Rotation[(ctx.default_rotation_index % RotationLen) + 1]
        second == Rotation[((ctx.default_rotation_index + 1) % RotationLen) + 1]
    IN  IF first = ctx.last_state
        THEN [ state |-> second,
               context |-> [ctx EXCEPT !.default_rotation_index = @ + 2] ]
        ELSE [ state |-> first,
               context |-> [ctx EXCEPT !.default_rotation_index = @ + 1] ]

Keep(ctx, st) == [state |-> st, context |-> ctx]

EarlyEscalationFromAnyState(ctx, analysis) ==
    /\ analysis.transaction_verb
    /\ ctx.transaction_verb_count >= 2
    /\ Len(ctx.turns) > 1

(* rule 3.5 of _determine_state *)
EarlyEscalation(ctx, analysis) ==
    /\ analysis.transaction_verb
    /\ ctx.transaction_verb_count >= 2
    /\ Len(ctx.turns) > 1
    /\ ctx.last_state = "CLARIFY"

DetermineStateUrgencyFirst(ctx, scorer, analysis) ==
    IF analysis.info_request THEN Keep(ctx, "DEFLECT")
    ELSE IF analysis.urgency >= HighUrgency \/ analysis.threat_level THEN Keep(ctx, "STALL")
    ELSE IF should_force_extract(scorer) THEN Keep(ctx, "EXTRACT")
    ELSE IF EarlyEscalation(ctx, analysis) THEN Keep(ctx, "CONFUSE")
    ELSE IF analysis.money_mention
         THEN (IF ctx.last_state = "CLARIFY" THEN Keep(ctx, "CONFUSE")
                                             ELSE Keep(ctx, "CLARIFY"))
    ELSE IF prefer_extract(scorer) THEN Keep(ctx, "EXTRACT")
    ELSE IF analysis.is_question /\ ctx.state_counts["EXTRACT"] < QuestionExtractLimit
         THEN Keep(ctx, "EXTRACT")
    ELSE SelectDefaultState(ctx)

DetermineStateMoneyClarify(ctx, scorer, analysis) ==
    IF analysis.info_request THEN Keep(ctx, "DEFLECT")
    ELSE IF should_force_extract(scorer) THEN Keep(ctx, "EXTRACT")
    ELSE IF analysis.urgency >= HighUrgency \/ analysis.threat_level THEN Keep(ctx, "STALL")
    ELSE IF EarlyEscalation(ctx, analysis) THEN Keep(ctx, "CONFUSE")
    ELSE IF analysis.money_mention THEN Keep(ctx, "CLARIFY")
    ELSE IF prefer_extract(scorer) THEN Keep(ctx, "EXTRACT")
    ELSE IF analysis.is_question /\ ctx.state_counts["EXTRACT"] < QuestionExtractLimit
         THEN Keep(ctx, "EXTRACT")
    ELSE SelectDefaultState(ctx)

DetermineState(ctx, scorer, analysis) ==
    IF analysis.info_request THEN Keep(ctx, "DEFLECT")
    ELSE IF should_force_extract(scorer) THEN Keep(ctx, "EXTRACT")
    ELSE IF analysis.urgency >= HighUrgency \/ analysis.threat_level THEN Keep(ctx, "STALL")
    ELSE IF EarlyEscalation(ctx, analysis) THEN Keep(ctx, "CONFUSE")
    ELSE IF analysis.money_mention
         THEN (IF ctx.last_state = "CLARIFY" THEN Keep(ctx, "CONFUSE")
                                             ELSE Keep(ctx, "CLARIFY"))
    ELSE IF prefer_extract(scorer) THEN Keep(ctx, "EXTRACT")
    ELSE IF analysis.is_question /\ ctx.state_counts["EXTRACT"] < QuestionExtractLimit
         THEN Keep(ctx, "EXTRACT")
    ELSE SelectDefaultState(ctx)

UpdateContext(ctx, analysis, st) ==
    [ctx EXCEPT !.urgency_level = Max(@, analysis.urgency),
                !.last_state = st,
                !.state_counts[st] = @ + 1]

ScoreInboundUnlessJailbreak(scorer, text) ==
    IF Flag(text, "jailbreak") THEN scorer ELSE score_turn(scorer, text)

ScoreInboundTwice(scorer, text) == score_turn(score_turn(scorer, text), text)

(* the scorer the state machine holds after the turn's text arrived *)
ScoreInbound(scorer, text) == score_turn(scorer, text)

(* the step that decides a turn: step 0 before step 1 before the rules *)
PriorityStepExtractFirst(is_jailbreak, is_extract) ==
    IF is_extract THEN "force_extract"
    ELSE IF is_jailbreak THEN "jailbreak"
    ELSE "rules"

PriorityStepNoExtract(is_jailbreak, is_extract) ==
    IF is_jailbreak THEN "jailbreak" ELSE "rules"

PriorityStep(is_jailbreak, is_extract) ==
    IF is_jailbreak THEN "jailbreak"
    ELSE IF is_extract THEN "force_extract"
    ELSE "rules"

(* the context once the inbound text is recorded *)
RecordInbound(ctx, text) ==
    [ctx EXCEPT !.turns = Append(@, [role |-> "scammer", text |-> text]),
                !.transaction_verb_count =
                    IF Hits(text, "txVerbs") # {} THEN @ + 1 ELSE @]

(* what analyze_and_transition returns and leaves in the state machine *)
Transition(sm, ctx, scorer, st, analysis, blocked) ==
    [ sm |-> [ context |-> UpdateContext(ctx, analysis, st),
               scorer |-> scorer,
               jailbreak_attempts |-> sm.jailbreak_attempts + blocked ],
      state |-> st, analysis |-> analysis ]

(* step 3: the state the rules chose, then _update_context *)
RulesDecided(sm, scorer, analysis, d) ==
    Transition(sm, d.context, scorer, d.state, analysis, 0)

(* steps 2 and later: the rule cascade on the analysed text *)
RulesTransition(sm, ctx, scorer, analysis) ==
    RulesDecided(sm, scorer, analysis, DetermineState(ctx, scorer, analysis))

(* steps 0, 1 and 2-3 on the recorded turn and the updated scorer *)
Decide(sm, text, ctx1, scorer1, step) ==
    IF step = "jailbreak"
    THEN Transition(sm, ctx1, scorer1, "DEFLECT", ShortCircuitAnalysis(TRUE, FALSE), 1)
    ELSE IF step = "force_extract"
    THEN Transition(sm, [ctx1 EXCEPT !.forced_extract_count = @ + 1], scorer1,
                    "EXTRACT", ShortCircuitAnalysis(FALSE, TRUE), 0)
    ELSE RulesTransition(sm, ctx1, scorer1, FullAnalysis(text))

(* DeterministicStateMachine.analyze_and_transition *)
analyze_and_transition(sm, text) ==
    Decide(sm, text, RecordInbound(sm.context, text), ScoreInbound(sm.scorer, text),
           PriorityStep(CheckJailbreak(text), CheckExtractPatterns(text)))

add_agent_response(ctx, response) ==
    [ctx EXCEPT !.turns = Append(@, [role |-> "agent", text |-> response])]

RepliesGiven(ctx) ==
    Cardinality({ i \in 1..Len(ctx.turns) :
                    ctx.turns[i].role = "agent" /\ ctx.turns[i].text.kind # "empty" })

get_template_for_state_by_replies(ctx, st, analysis) ==
    IF analysis.jailbreak_attempt
    THEN [ template |-> [list |-> JailbreakKey,
                         index |-> RepliesGiven(ctx) % NumJailbreakDeflections],
           fill_turn |-> 0,
           context |-> [ctx EXCEPT !.template_index[JailbreakKey] = @ + 1] ]
    ELSE [ template |-> [list |-> st,
                         index |-> RepliesGiven(ctx) % NumStateTemplates],
           fill_turn |-> Len(ctx.turns),
           context |-> [ctx EXCEPT !.template_index[st] = @ + 1] ]

get_template_for_state_of_state(ctx, st, analysis) ==
    [ template |-> [list |-> st,
                    index |-> ctx.template_index[st] % NumStateTemplates],
      fill_turn |-> Len(ctx.turns),
      context |-> [ctx EXCEPT !.template_index[st] = @ + 1] ]

(* DeterministicStateMachine.get_template_for_state: the template chosen   *)
(* (its list and index), the turn number the fills cycle on, the context   *)
get_template_for_state(ctx, st, analysis) ==
    IF analysis.jailbreak_attempt
    THEN [ template |-> [list |-> JailbreakKey,
                         index |-> ctx.template_index[JailbreakKey] % NumJailbreakDeflections],
           fill_turn |-> 0,
           context |-> [ctx EXCEPT !.template_index[JailbreakKey] = @ + 1] ]
    ELSE [ template |-> [list |-> st,
                         index |-> ctx.template_index[st] % NumStateTemplates],
           fill_turn |-> Len(ctx.turns),
           context |-> [ctx EXCEPT !.template_index[st] = @ + 1] ]

(***************************************************************************)
(* ArtifactExtractor.  What the patterns see of a text: its digit runs in  *)
(* text order (a run may follow a "+"), its handle@domain tokens, and the  *)
(* context keywords.  A number string is a digit sequence with or without  *)
(* a leading "+".                                                          *)
(***************************************************************************)
INDIAN_MOBILE_PREFIXES ==
    { 6000, 6200, 6201, 6280, 6281, 6299, 6300, 6301, 6350, 7000, 7008, 7011,
      7015, 7050, 7051, 7065, 7200, 7201, 7202, 7210, 7217, 7290, 7400, 7401,
      7410, 7411, 7412, 7500, 7501, 7567, 7568, 7600, 7700, 7701, 7737, 7800,
      7827, 7838, 7896, 7977, 8000, 8004, 8010, 8100, 8200, 8291, 8300, 8400,
      8500, 8600, 8700, 8800, 8801, 8802, 8826, 8850, 8860, 8900, 8901, 8902,
      8903, 8904, 8920, 9000, 9001, 9012, 9014, 9016, 9040, 9041, 9042, 9043,
      9044, 9045, 9046, 9047, 9048, 9049, 9100, 9115, 9200, 9300, 9400, 9401,
      9402, 9403, 9404, 9405, 9406, 9407, 9408, 9409, 9410, 9411, 9412, 9413,
      9414, 9415, 9416, 9417, 9418, 9419, 9420, 9421, 9422, 9423, 9424, 9425,
      9426, 9427, 9428, 9429, 9555, 9582, 9650, 9654, 9717, 9718, 9810, 9811,
      9812, 9815, 9816, 9817, 9818, 9819, 9820, 9821, 9867, 9868, 9869, 9876,
      9877, 9878, 9879, 9880, 9881, 9882, 9883, 9884, 9885, 9886, 9887, 9888,
      9889, 9890, 9891, 9892, 9893, 9894, 9895, 9896, 9897, 9898, 9899, 9900,
      9901, 9902, 9910, 9911, 9920, 9921, 9922, 9923, 9924, 9925, 9926, 9927,
      9928, 9929, 9930, 9931, 9958, 9960, 9961, 9962, 9963, 9964, 9965, 9966,
      9967, 9968, 9969, 9990, 9999 }

CARRIER_MAP(prefix) ==
    IF prefix \in {9910, 9911, 9650, 9654, 9958, 9990, 9999, 8826} THEN "Airtel"
    ELSE IF prefix \in {8800, 8801, 8802, 6299, 6300, 7400, 7500, 7700} THEN "Jio"
    ELSE IF prefix \in {9812, 9815, 9816, 9867} THEN "Vi"
    ELSE IF prefix \in {9400, 9401, 9402, 9403} THEN "BSNL"
    ELSE IF prefix \in {9810, 9811} THEN "MTNL"
    ELSE "Other"

NoCarrier == "None"

Prefix4(d) == d[1] * 1000 + d[2] * 100 + d[3] * 10 + d[4]

(* IndianMobilePrefixValidator.validate; confidence in hundredths *)
Validate(d) ==
    IF Len(d) # 10 THEN [is_mobile |-> FALSE, carrier |-> NoCarrier, confidence |-> 0]
    ELSE IF d[1] \notin {6, 7, 8, 9}
         THEN [is_mobile |-> FALSE, carrier |-> NoCarrier, confidence |-> 0]
    ELSE IF Prefix4(d) \in INDIAN_MOBILE_PREFIXES
         THEN [is_mobile |-> TRUE, carrier |-> CARRIER_MAP(Prefix4(d)), confidence |-> 99]
    ELSE [is_mobile |-> FALSE, carrier |-> NoCarrier, confidence |-> 40]

NumStr(plus, digits) == [plus |-> plus, digits |-> digits]
StrLen(n) == Len(n.digits) + (IF n.plus THEN 1 ELSE 0)
WithCountryCode(d) == NumStr(TRUE, <<9, 1>> \o d)

(* what phone pattern i (0..3) captures of one digit run, normalized:      *)
(* <<>> when the pattern does not match there                              *)
PhonePatternMatch(i, t) ==
    LET d == t.digits
    IN  CASE i = 0 -> IF Len(d) = 10 \/ (Len(d) = 11 /\ d[1] = 1)
                      THEN <<NumStr(FALSE, d)>> ELSE <<>>
          [] i = 1 -> IF t.plus /\ Len(d) = 12 /\ d[1] = 9 /\ d[2] = 1
                      THEN <<NumStr(TRUE, d)>> ELSE <<>>
          [] i = 2 -> IF t.plus /\ Len(d) >= 7 /\ Len(d) <= 17
                      THEN <<NumStr(TRUE, d)>> ELSE <<>>
          [] i = 3 -> IF Len(d) = 10 THEN <<NumStr(FALSE, d)>> ELSE <<>>

RECURSIVE Concat(_)
Concat(ss) == IF ss = <<>> THEN <<>> ELSE Head(ss) \o Concat(Tail(ss))

(* the matches in the order the two nested loops visit them *)
PhoneMatches(numbers) ==
    Concat([k \in 1..4 |->
        Concat([j \in 1..Len(numbers) |->
            LET m == PhonePatternMatch(k - 1, numbers[j])
            IN  IF m = <<>> THEN <<>> ELSE <<[pattern |-> k - 1, normalized |-> m[1]]>>])])

AddPhone(seen, number, carrier, confidence) ==
    IF \E k \in 1..Len(seen) : seen[k].number = number THEN seen
    ELSE Append(seen, [number |-> number, carrier |-> carrier, confidence |-> confidence])

ExplicitFormat(seen, n) ==
    IF StrLen(n) >= 10 /\ StrLen(n) <= 15 THEN AddPhone(seen, n, NoCarrier, 95) ELSE seen

ClassifyPhone(seen, m, has_phone_context) ==
    LET n == m.normalized
    IN  IF ~n.plus /\ Len(n.digits) = 10
        THEN LET validation == Validate(n.digits)
             IN  IF validation.is_mobile
                 THEN AddPhone(seen, WithCountryCode(n.digits),
                               validation.carrier, validation.confidence)
                 ELSE IF m.pattern = 3 /\ ~has_phone_context THEN seen
                 ELSE IF n.digits[1] \in {6, 7, 8, 9}
                      THEN AddPhone(seen, WithCountryCode(n.digits), NoCarrier, 70)
                 ELSE ExplicitFormat(seen, n)
        ELSE ExplicitFormat(seen, n)

RECURSIVE FoldPhones(_, _, _)
FoldPhones(seen, ms, ctx) ==
    IF ms = <<>> THEN seen
    ELSE FoldPhones(ClassifyPhone(seen, Head(ms), ctx), Tail(ms), ctx)

ExtractPhones(view) == FoldPhones(<<>>, PhoneMatches(view.numbers), view.phone_context)

(* the first digit run of 9 to 18 digits: account_number.search *)
AccountMatch(numbers) ==
    LET hits == { j \in 1..Len(numbers) :
                    Len(numbers[j].digits) >= 9 /\ Len(numbers[j].digits) <= 18 }
    IN  IF hits = {} THEN <<>>
        ELSE numbers[CHOOSE j \in hits : \A k \in hits : j <= k].digits

DistinctDigits(d) == Cardinality({ d[k] : k \in 1..Len(d) })
LeadingZeros(d) == Len(d) >= 4 /\ \A k \in 1..4 : d[k] = 0

(* the account number _extract_bank_details accepts, <<>> for none *)
AccountNumber(view) ==
    LET num == AccountMatch(view.numbers)
    IN  IF num = <<>> \/ ~view.banking_context THEN <<>>
        ELSE IF Len(num) = 10 /\ Validate(num).is_mobile THEN <<>>
        ELSE IF Len(num) >= 9 /\ ~LeadingZeros(num) /\ DistinctDigits(num) > 2 THEN num
        ELSE <<>>

ExtractBankDetails(view) ==
    LET account == [ account_number |-> AccountNumber(view),
                     ifsc |-> view.ifsc, swift |-> view.swift,
                     routing_number |-> view.routing ]
    IN  IF account.account_number = <<>> /\ account.ifsc = ""
           /\ account.swift = "" /\ account.routing_number = ""
        THEN <<>> ELSE <<account>>

EmailDomains ==
    { "gmail", "yahoo", "outlook", "hotmail", "aol", "icloud", "protonmail",
      "mail", "email", "msn", "live", "tutanota", "zoho", "yandex", "gmx",
      "rediffmail", "inbox", "rocketmail", "pm", "fastmail", "hey" }

(* a handle is <<name, domain>>; every name used here has 2 or more characters *)
ExtractUpi(view) ==
    { view.handles[k] : k \in { j \in 1..Len(view.handles) :
                                   view.handles[j][2] \notin EmailDomains } }

(* ArtifactExtractor._extract_emails.  An address is <<name, domain, tld>>, *)
(* lower case.  The UPI patterns stop a domain before its first dot, so an *)
(* address is never an excluded UPI id, and the part after its "@" holds a *)
(* dot and is never one of the dot-free upi_domains.                       *)
_extract_emails(view, exclude) ==
    { view.mails[k] : k \in { j \in 1..Len(view.mails) : view.mails[j] \notin exclude } }

NoArtifacts ==
    [ upi_ids |-> {}, bank_accounts |-> <<>>, phishing_links |-> {},
      phone_numbers |-> <<>>, crypto_wallets |-> {}, emails |-> {} ]

(* ArtifactExtractor.extract on what the patterns see of a text *)
ExtractView(view) ==
    [ upi_ids |-> ExtractUpi(view),
      bank_accounts |-> ExtractBankDetails(view),
      phishing_links |-> {},
      phone_numbers |-> ExtractPhones(view),
      crypto_wallets |-> {},
      emails |-> _extract_emails(view, ExtractUpi(view)) ]

(* the six categories, in the order extract fills them *)
Categories ==
    {"upi_ids", "bank_accounts", "phishing_links", "phone_numbers",
     "crypto_wallets", "emails"}

ExtractGuardedPerCall(view, raised) ==
    IF raised # {} THEN NoArtifacts ELSE ExtractView(view)

(* the upi_ids extract holds when it reaches the emails: [] after a raise *)
GuardedUpi(view, raised) ==
    IF "upi_ids" \in raised THEN {} ELSE ExtractUpi(view)

(* ArtifactExtractor.extract when the sub-extractions of the categories in *)
(* raised raise an Exception: each is caught and its list left empty       *)
ExtractGuarded(view, raised) ==
    [ upi_ids |-> GuardedUpi(view, raised),
      bank_accounts |-> IF "bank_accounts" \in raised THEN <<>>
                        ELSE ExtractBankDetails(view),
      phishing_links |-> {},
      phone_numbers |-> IF "phone_numbers" \in raised THEN <<>>
                        ELSE ExtractPhones(view),
      crypto_wallets |-> {},
      emails |-> IF "emails" \in raised THEN {}
                 ELSE _extract_emails(view, GuardedUpi(view, raised)) ]

ViewOf(text) ==
    [ numbers |-> Concat([i \in 1..Len(text) |->
                     [k \in 1..Len(FragmentHits(text[i]).numbers) |->
                         NumStr(FALSE, FragmentHits(text[i]).numbers[k])]]),
      handles |-> Concat([i \in 1..Len(text) |-> FragmentHits(text[i]).handles]),
      banking_context |-> Hits(text, "bankCtx") # {},
      phone_context |-> Hits(text, "phoneCtx") # {},
      ifsc |-> "", swift |-> "", routing |-> "", mails |-> <<>> ]

(* _extract_urls reads the text itself *)
Extract(text) == [ExtractView(ViewOf(text)) EXCEPT !.phishing_links = Hits(text, "links")]

has_artifacts(a) ==
    \/ a.upi_ids # {} \/ a.bank_accounts # <<>> \/ a.phishing_links # {}
    \/ a.phone_numbers # <<>> \/ a.crypto_wallets # {} \/ a.emails # {}

RECURSIVE MergePhones(_, _, _)
MergePhones(mine, existing, theirs) ==
    IF theirs = <<>> THEN mine
    ELSE IF Head(theirs).number \in existing
         THEN MergePhones(mine, existing, Tail(theirs))
         ELSE MergePhones(Append(mine, Head(theirs)), existing, Tail(theirs))

MergeToggling(self, other) ==
    [ upi_ids |-> (self.upi_ids \ other.upi_ids) \cup (other.upi_ids \ self.upi_ids),
      phishing_links |-> self.phishing_links \cup other.phishing_links,
      crypto_wallets |-> self.crypto_wallets \cup other.crypto_wallets,
      emails |-> self.emails \cup other.emails,
      phone_numbers |->
          MergePhones(self.phone_numbers,
                      { self.phone_numbers[k].number : k \in 1..Len(self.phone_numbers) },
                      other.phone_numbers),
      bank_accounts |->
          self.bank_accounts \o
          SelectSeq(other.bank_accounts,
                    LAMBDA a : \A k \in 1..Len(self.bank_accounts) : self.bank_accounts[k] # a) ]

(* ExtractedArtifacts.merge: the sets of known numbers and accounts are    *)
(* taken once, before the loops; merging an instance into itself appends   *)
(* nothing, so the lists the loops walk do not grow under them             *)
Merge(self, other) ==
    [ upi_ids |-> self.upi_ids \cup other.upi_ids,
      phishing_links |-> self.phishing_links \cup other.phishing_links,
      crypto_wallets |-> self.crypto_wallets \cup other.crypto_wallets,
      emails |-> self.emails \cup other.emails,
      phone_numbers |->
          MergePhones(self.phone_numbers,
                      { self.phone_numbers[k].number : k \in 1..Len(self.phone_numbers) },
                      other.phone_numbers),
      bank_accounts |->
          self.bank_accounts \o
          SelectSeq(other.bank_accounts,
                    LAMBDA a : \A k \in 1..Len(self.bank_accounts) : self.bank_accounts[k] # a) ]

(***************************************************************************)
(* ConversationMemory                                                      *)
(***************************************************************************)
NewMetrics ==
    [ total_turns |-> 0, scammer_turns |-> 0, agent_turns |-> 0,
      jailbreak_attempts |-> 0, extract_triggers |-> 0,
      state_distribution |-> [st \in AgentState |-> 0] ]

NewMemory ==
    [ history |-> <<>>, cumulative_artifacts |-> NoArtifacts, metrics |-> NewMetrics ]

add_scammer_message_restarting(mem, message, st, artifacts, is_jailbreak, is_extract_trigger) ==
    [ history |-> Append(mem.history,
                    [role |-> "scammer", message |-> message, state |-> st]),
      cumulative_artifacts |-> Merge(mem.cumulative_artifacts, artifacts),
      metrics |-> [(IF is_jailbreak THEN NewMetrics ELSE mem.metrics) EXCEPT
                      !.total_turns = @ + 1,
                      !.scammer_turns = @ + 1,
                      !.state_distribution[st] = @ + 1,
                      !.jailbreak_attempts = IF is_jailbreak THEN @ + 1 ELSE @,
                      !.extract_triggers = IF is_extract_trigger THEN @ + 1 ELSE @] ]

add_scammer_message(mem, message, st, artifacts, is_jailbreak, is_extract_trigger) ==
    [ history |-> Append(mem.history,
                    [role |-> "scammer", message |-> message, state |-> st]),
      cumulative_artifacts |-> Merge(mem.cumulative_artifacts, artifacts),
      metrics |-> [mem.metrics EXCEPT
                      !.total_turns = @ + 1,
                      !.scammer_turns = @ + 1,
                      !.state_distribution[st] = @ + 1,
                      !.jailbreak_attempts = IF is_jailbreak THEN @ + 1 ELSE @,
                      !.extract_triggers = IF is_extract_trigger THEN @ + 1 ELSE @] ]

memory_add_agent_response(mem, message, st) ==
    [mem EXCEPT !.history = Append(@, [role |-> "agent", message |-> message, state |-> st]),
                !.metrics.total_turns = @ + 1,
                !.metrics.agent_turns = @ + 1]

(***************************************************************************)
(* AnchorAgent                                                             *)
(***************************************************************************)
NewAgent == [ state_machine |-> NewStateMachine, memory |-> NewMemory ]

(* JSON values of the input: absent, a string (a text, possibly padded     *)
(* with blanks), or a value that is not a string                           *)
Absent == [type |-> "absent", text |-> EmptyText]
NotAString == [type |-> "number", text |-> EmptyText]
Str(text) == [type |-> "string", text |-> text]

Usable(v) == v.type = "string" /\ v.text # EmptyText

(* AnchorAgent._extract_message: the stripped text, EmptyText for None *)
ExtractMessage(input_json) ==
    IF Usable(input_json.message) THEN input_json.message.text
    ELSE IF Usable(input_json.text) THEN input_json.text.text
    ELSE IF Usable(input_json.content) THEN input_json.content.text
    ELSE EmptyText

InputJsons ==
         { [message |-> Str(m), text |-> Absent, content |-> Absent] : m \in Messages }
    \cup { [message |-> Absent, text |-> Absent, content |-> Absent],
           [message |-> Str(EmptyText), text |-> Absent, content |-> Absent],
           [message |-> NotAString, text |-> Absent, content |-> Absent],
           [message |-> NotAString, text |-> Str(EmptyText), content |-> Str(<<"pay the fee">>)] }

(* reply texts: a template of a list (blanks filled on fill_turn), a       *)
(* survival line, or the empty string                                      *)
EmptyReply == [kind |-> "empty", list |-> "", index |-> 0, fill_turn |-> 0]
TemplateReply(t) ==
    [kind |-> "template", list |-> t.template.list, index |-> t.template.index,
     fill_turn |-> t.fill_turn]
SurvivalReply(idx) ==
    [kind |-> "survival", list |-> "survival", index |-> idx % NumSurvivalResponses,
     fill_turn |-> 0]

IsEmptyReply(r) == r.kind = "empty"

FinalResponseNoFallback(response, idx) == response

(* the reply handed to the caller: never the empty string *)
FinalResponse(response, idx) ==
    IF IsEmptyReply(response) THEN SurvivalReply(idx) ELSE response

jailbreak_guard(text) == Flag(text, "jailbreak")

NoTemplate == [list |-> "", index |-> 0]
NoAnalysis == ShortCircuitAnalysis(FALSE, FALSE)

(* AnchorAgent._error_response *)
ErrorResponse(input_json, idx) ==
    [ input |-> input_json, message |-> EmptyText, error |-> TRUE,
      state |-> "DEFLECT", analysis |-> NoAnalysis, template |-> NoTemplate,
      rendered |-> EmptyReply, response |-> SurvivalReply(idx),
      engagement_turn |-> 0, jailbreak_blocked |-> FALSE, forced_extract |-> FALSE,
      artifacts |-> NoArtifacts ]

(* AnchorAgent.process_api_message: the agent and the survival index after *)
(* the call, and the output returned.  rendered_empty: the rendering step  *)
(* produced an empty string.                                               *)
(* steps 6 (state machine) and 7: record the reply, build the output *)
Answered(ag, idx, input_json, scammer_message, r, t, response, mem2) ==
    [ agent |-> [ state_machine |->
                      [r.sm EXCEPT !.context = add_agent_response(t.context, response)],
                  memory |-> mem2 ],
      survival_idx |-> IF IsEmptyReply(response) THEN idx + 1 ELSE idx,
      output |-> [ input |-> input_json, message |-> scammer_message,
                   error |-> FALSE, state |-> r.state, analysis |-> r.analysis,
                   template |-> t.template, rendered |-> response,
                   response |-> FinalResponse(response, idx),
                   engagement_turn |-> mem2.metrics.scammer_turns,
                   jailbreak_blocked |-> jailbreak_guard(scammer_message),
                   forced_extract |-> r.analysis.forced_extract,
                   artifacts |-> mem2.cumulative_artifacts ] ]

(* steps 5 and 6: extract the artifacts, append both turns to the memory *)
Remembered(ag, idx, input_json, scammer_message, r, t, response) ==
    Answered(ag, idx, input_json, scammer_message, r, t, response,
             memory_add_agent_response(
                 add_scammer_message(ag.memory, scammer_message, r.state,
                                     Extract(scammer_message),
                                     jailbreak_guard(scammer_message),
                                     r.analysis.forced_extract),
                 response, r.state))

(* step 4: llm.generate_response fills the template, or returns "" *)
Rendered(ag, idx, input_json, scammer_message, r, t, rendered_empty) ==
    Remembered(ag, idx, input_json, scammer_message, r, t,
               IF rendered_empty THEN EmptyReply ELSE TemplateReply(t))

(* step 4: the template for the state the state machine decided *)
Analysed(ag, idx, input_json, scammer_message, r, rendered_empty) ==
    Rendered(ag, idx, input_json, scammer_message, r,
             get_template_for_state(r.sm.context, r.state, r.analysis), rendered_empty)

(* steps 1 to 3: an empty message is answered by _error_response *)
ProcessMessage(ag, idx, input_json, scammer_message, rendered_empty) ==
    IF scammer_message = EmptyText
    THEN [ agent |-> ag, survival_idx |-> idx + 1,
           output |-> ErrorResponse(input_json, idx) ]
    ELSE Analysed(ag, idx, input_json, scammer_message,
                  analyze_and_transition(ag.state_machine, scammer_message),
                  rendered_empty)

process_api_message(ag, idx, input_json, rendered_empty) ==
    ProcessMessage(ag, idx, input_json, ExtractMessage(input_json), rendered_empty)

(***************************************************************************)
(* The two servers' rebuild_agent_from_history                             *)
(***************************************************************************)
Senders == {"scammer", "agent", "user"}
HistoryEntries == [sender : Senders, text : HistoryTexts]

RECURSIVE SeqsUpTo(_, _)
SeqsUpTo(S, n) ==
    IF n = 0 THEN {<<>>}
    ELSE LET shorter == SeqsUpTo(S, n - 1)
         IN  shorter \cup { Append(q, x) : q \in {p \in shorter : Len(p) = n - 1}, x \in S }

Histories == SeqsUpTo(HistoryEntries, MaxHistory)

(* malformed entries of a conversationHistory: one that is not a JSON      *)
(* object, and an object whose sender is not a string (null, a number)     *)
NotAnObject == [sender |-> "<not an object>", text |-> EmptyText]
NonStringSender == "<not a string>"
MalformedEntries ==
    { NotAnObject, [sender |-> NonStringSender, text |-> <<"send to user@ybl">>] }

(* msg.get("text", "") raises on an entry that is not an object,           *)
(* msg.get("sender", "").lower() on a sender that is not a string; neither *)
(* rebuild_agent_from_history catches it                                   *)
EntryRaises(msg) == msg \in MalformedEntries

ReplayRaises(history) == \E i \in 1..Len(history) : EntryRaises(history[i])

(* the entries the loop went through before the first one that raises *)
RECURSIVE ReplayedPrefix(_)
ReplayedPrefix(history) ==
    IF history = <<>> \/ EntryRaises(Head(history)) THEN <<>>
    ELSE <<Head(history)>> \o ReplayedPrefix(Tail(history))

ReplayHistories == SeqsUpTo(HistoryEntries \cup MalformedEntries, MaxHistory)

MergeHistoryArtifactsUncounted(mem, text) ==
    LET artifacts == Extract(text)
    IN  [mem EXCEPT
            !.cumulative_artifacts =
                IF has_artifacts(artifacts) THEN Merge(@, artifacts) ELSE @]

MergeHistoryArtifacts(mem, text) ==
    LET artifacts == Extract(text)
    IN  [mem EXCEPT
            !.cumulative_artifacts =
                IF has_artifacts(artifacts) THEN Merge(@, artifacts) ELSE @,
            !.metrics.scammer_turns = @ + 1]

(* src/anchor_api_server.py: memory only *)
RECURSIVE RebuildMemoryOnly(_, _)
RebuildMemoryOnly(ag, history) ==
    IF history = <<>> THEN ag
    ELSE LET msg == Head(history)
             next == IF msg.text # EmptyText /\ msg.sender = "scammer"
                     THEN [ag EXCEPT !.memory = MergeHistoryArtifacts(@, msg.text)]
                     ELSE ag
         IN  RebuildMemoryOnly(next, Tail(history))

(* src/Anchor/anchor_api_server.py: memory and state machine *)
RECURSIVE RebuildWithReplay(_, _)
RebuildWithReplay(ag, history) ==
    IF history = <<>> THEN ag
    ELSE LET msg == Head(history)
             next ==
                 IF msg.text = EmptyText THEN ag
                 ELSE IF msg.sender = "scammer"
                 THEN [ state_machine |-> analyze_and_transition(ag.state_machine, msg.text).sm,
                        memory |-> MergeHistoryArtifacts(ag.memory, msg.text) ]
                 ELSE IF msg.sender = "agent"
                 THEN [ag EXCEPT !.state_machine.context =
                                     add_agent_response(@, [kind |-> "text", text |-> msg.text])]
                 ELSE ag
         IN  RebuildWithReplay(next, Tail(history))

memory_reset(mem) == NewMemory
state_machine_reset(sm) ==
    [ context |-> NewContext, scorer |-> NewScorer,
      jailbreak_attempts |-> sm.jailbreak_attempts ]

(* AnchorAgent.reset_session *)
reset_session(ag) ==
    [ state_machine |-> state_machine_reset(ag.state_machine),
      memory |-> memory_reset(ag.memory) ]

(* AnchorAgent.get_session_summary *)
get_session_summary(ag) ==
    [ metrics |-> ag.memory.metrics,
      total_artifacts |-> ag.memory.cumulative_artifacts,
      jailbreak_attempts |-> ag.state_machine.jailbreak_attempts ]

rebuild_agent_from_history_stateless(ag, history) ==
    RebuildMemoryOnly([ag EXCEPT !.memory = memory_reset(@)], history)

rebuild_agent_from_history_eval(ag, history) ==
    RebuildWithReplay([ state_machine |-> state_machine_reset(ag.state_machine),
                        memory |-> memory_reset(ag.memory) ], history)

ScammerCount(history) ==
    Cardinality({i \in 1..Len(history) :
                    history[i].sender = "scammer" /\ history[i].text # EmptyText})

(***************************************************************************)
(* llm_v2: validate_response and the repair of a reply that fails it.  A   *)
(* reply text is a sequence of pieces, concatenated in order; a piece is   *)
(* a keyword of one of the lists the checks search for, a question mark,   *)
(* a blank, a neutral word, or one of the sentences the repair adds.       *)
(***************************************************************************)
_rf_inject_phrases ==
    << "This sounds like an account compromise attempt.",
       "That seems very suspicious to me.",
       "I think this might be fraud.",
       "This feels like an unauthorized request.",
       "You mentioned an OTP and that worries me.",
       "Are you asking for a verification code from me?",
       "This sounds like a security risk." >>

_followup_questions ==
    << "What is your employee ID?",
       "Which branch are you calling from?",
       "What is your manager's name?",
       "Can you give me your official callback number?",
       "Do you have a case ID for this?",
       "What branch did you say you were at?",
       "Who is your manager there?" >>

PersonaBreakReplacement == "I'm confused. You mentioned an OTP and that worries me."

Blank == " "

SeqRange(q) == { q[i] : i \in 1..Len(q) }

(* the pieces that hold a RED_FLAG_KEYWORDS entry, lower-cased *)
RedFlagPieces == {"otp"} \cup SeqRange(_rf_inject_phrases) \cup {PersonaBreakReplacement}
(* the pieces that hold an _INV_PHRASES entry, lower-cased *)
InvestigativePieces == {"branch"} \cup SeqRange(_followup_questions)
(* the pieces that hold a _PERSONA_BREAKS entry, lower-cased *)
PersonaBreakPieces == {"chatbot"}
(* the pieces whose last character is a question mark *)
QuestionEndPieces ==
    {"?"} \cup SeqRange(_followup_questions) \cup {_rf_inject_phrases[6]}

ReplyPieces == {"hello", "otp", "branch", "?", "chatbot", Blank}

HasRedFlag(response) == \E i \in 1..Len(response) : response[i] \in RedFlagPieces
HasInvestigative(response) == \E i \in 1..Len(response) : response[i] \in InvestigativePieces
HasPersonaBreak(response) == \E i \in 1..Len(response) : response[i] \in PersonaBreakPieces
HasQuestionMark(response) == \E i \in 1..Len(response) : response[i] \in QuestionEndPieces

(* response.strip() at its right end *)
RECURSIVE RStrip(_)
RStrip(response) ==
    IF response # <<>> /\ response[Len(response)] = Blank
    THEN RStrip(SubSeq(response, 1, Len(response) - 1))
    ELSE response

(* response.strip().endswith("?") *)
EndsWithQuestion(response) ==
    RStrip(response) # <<>> /\ RStrip(response)[Len(RStrip(response))] \in QuestionEndPieces

validate_response(response) ==
    /\ HasRedFlag(response)
    /\ HasInvestigative(response)
    /\ HasQuestionMark(response)
    /\ ~HasPersonaBreak(response)

(* the response with a separating blank, unless it is empty or ends in one *)
WithSeparator(response) ==
    IF response # <<>> /\ response[Len(response)] # Blank
    THEN Append(response, Blank) ELSE response

_append_followup_question_unless_investigative(response, turns) ==
    IF HasInvestigative(response) THEN response
    ELSE Append(WithSeparator(response),
                _followup_questions[(turns % NumFollowupQuestions) + 1])

_append_followup_question(response, turns) ==
    IF HasInvestigative(response) /\ EndsWithQuestion(response) THEN response
    ELSE Append(WithSeparator(response),
                _followup_questions[(turns % NumFollowupQuestions) + 1])

_inject_red_flag_concern(response, turns) ==
    IF HasPersonaBreak(response) THEN <<PersonaBreakReplacement>>
    ELSE IF HasRedFlag(response) THEN response
    ELSE <<_rf_inject_phrases[(turns % NumInjectPhrases) + 1], Blank>> \o response

(* TemplateBasedLLM.get_response, the deterministic enforcement step *)
Enforced(clean, turns) ==
    IF ~validate_response(clean)
    THEN _append_followup_question(_inject_red_flag_concern(clean, turns), turns)
    ELSE clean

(***************************************************************************)
(* Anchor/anchor_api_server.py: the session store and the export built     *)
(* from it.  The store is the dict _session_store, a function from the     *)
(* session ids it holds to their records.  Times are counted in ticks,     *)
(* TicksPerSecond to the second; the lists the code deduplicates without   *)
(* an order of their own (UPI ids, links, emails, keywords) are sets.      *)
(***************************************************************************)
EmptyStore == [k \in {} |-> 0]

NewSession(t) ==
    [ start_time |-> t, last_activity |-> t, total_messages |-> 0,
      phone_numbers |-> <<>>, bank_accounts |-> <<>>, upi_ids |-> {},
      phishing_links |-> {}, email_addresses |-> {},
      suspicious_keywords |-> {}, scam_detected |-> FALSE ]

_get_or_create_session(store, session_id, t) ==
    IF session_id \in DOMAIN store THEN store
    ELSE [k \in DOMAIN store \cup {session_id} |->
             IF k = session_id THEN NewSession(t) ELSE store[k]]

(* the session record after _update_session_intel merged into it *)
UpdatedSession(session, artifacts, keywords, scam_detected, t) ==
    [ start_time |-> session.start_time,
      last_activity |-> t,
      total_messages |-> session.total_messages + 1,
      phone_numbers |->
          MergePhones(session.phone_numbers,
                      { session.phone_numbers[k].number :
                          k \in 1..Len(session.phone_numbers) },
                      artifacts.phone_numbers),
      bank_accounts |->
          session.bank_accounts \o
          SelectSeq(artifacts.bank_accounts,
                    LAMBDA a : \A k \in 1..Len(session.bank_accounts) :
                                   session.bank_accounts[k] # a),
      upi_ids |-> session.upi_ids \cup artifacts.upi_ids,
      phishing_links |-> session.phishing_links \cup artifacts.phishing_links,
      email_addresses |-> session.email_addresses \cup artifacts.emails,
      suspicious_keywords |-> session.suspicious_keywords \cup keywords,
      scam_detected |-> session.scam_detected \/ scam_detected ]

_update_session_intel(store, session_id, artifacts, keywords, scam_detected, t) ==
    IF session_id \notin DOMAIN store THEN store
    ELSE [store EXCEPT ![session_id] =
             UpdatedSession(store[session_id], artifacts, keywords, scam_detected, t)]

(* int() of the simulated duration of a session, in whole seconds *)
EngagementDurationUnfloored(session) ==
    Max(session.last_activity - session.start_time,
        session.total_messages * 2 * SecondsPerMessage * TicksPerSecond)
      \div TicksPerSecond

EngagementDuration(session) ==
    LET total == session.total_messages * 2
        real_duration == session.last_activity - session.start_time
        simulated_duration ==
            Max(real_duration, total * SecondsPerMessage * TicksPerSecond)
    IN  IF total > 0 /\ simulated_duration < MinDurationSeconds * TicksPerSecond
        THEN MinDurationSeconds
        ELSE simulated_duration \div TicksPerSecond

AgentNotes(session) ==
    IF \/ session.phone_numbers # <<>> \/ session.bank_accounts # <<>>
       \/ session.upi_ids # {} \/ session.phishing_links # {}
       \/ session.email_addresses # {}
    THEN "Autonomous engagement completed. Extracted"
    ELSE IF session.scam_detected
         THEN "Scam indicators detected during engagement. No extractable artifacts found."
         ELSE "Engagement completed. No scam indicators detected."

ExportOf(session_id, session) ==
    [ status |-> "completed", sessionId |-> session_id,
      scamDetected |-> session.scam_detected,
      totalMessagesExchanged |-> session.total_messages * 2,
      phoneNumbers |-> [k \in 1..Len(session.phone_numbers) |->
                           session.phone_numbers[k].number],
      bankAccounts |-> [k \in 1..Len(session.bank_accounts) |->
                           session.bank_accounts[k].account_number],
      upiIds |-> session.upi_ids,
      phishingLinks |-> session.phishing_links,
      emailAddresses |-> session.email_addresses,
      engagementDurationSeconds |-> EngagementDuration(session),
      agentNotes |-> AgentNotes(session) ]

_build_export(store, session_id) ==
    IF session_id \notin DOMAIN store
    THEN [ status |-> "completed", sessionId |-> session_id,
           scamDetected |-> FALSE, totalMessagesExchanged |-> 0,
           phoneNumbers |-> <<>>, bankAccounts |-> <<>>, upiIds |-> {},
           phishingLinks |-> {}, emailAddresses |-> {},
           engagementDurationSeconds |-> 0,
           agentNotes |-> "No session data found." ]
    ELSE ExportOf(session_id, store[session_id])

export_session_creating(store, session_id, t) ==
    [ store |-> _get_or_create_session(store, session_id, t),
      response |-> _build_export(store, session_id) ]

(* GET /export/session/<session_id>: the store after the request and the   *)
(* body returned                                                           *)
export_session(store, session_id, t) ==
    [ store |-> store, response |-> _build_export(store, session_id) ]

(* the suspicious keywords process collects from the scammer turns of the  *)
(* history and from the current message                                    *)
SuspiciousKeywords(history, message_text) ==
    UNION { Hits(history[i].text, "suspicious") :
              i \in { j \in 1..Len(history) : history[j].sender = "scammer" } }
      \cup Hits(message_text, "suspicious")

(* POST /process once the session exists and the history replayed: the     *)
(* agent answers, the intelligence is merged into the store                *)
ProcessStored(store, session_id, history, message_text, idx, rendered_empty, t) ==
    LET r == process_api_message(
                 rebuild_agent_from_history_eval(NewAgent, history), idx,
                 [message |-> Str(message_text), text |-> Absent, content |-> Absent],
                 rendered_empty)
        keywords == SuspiciousKeywords(history, message_text)
    IN  [ store |-> _update_session_intel(store, session_id,
                        r.agent.memory.cumulative_artifacts,
                        keywords, keywords # {}, t),
          agent_idx |-> r.survival_idx, survived |-> 0 ]

(* POST /process: the store, the agent's survival index and the number of  *)
(* survival replies the server itself gave                                 *)
process(store, session_id, history, message_text, idx, rendered_empty, t) ==
    IF message_text = EmptyText
    THEN [ store |-> store, agent_idx |-> idx, survived |-> 1 ]
    ELSE IF ReplayRaises(history)
    THEN [ store |-> _get_or_create_session(store, session_id, t),
           agent_idx |-> idx, survived |-> 1 ]
    ELSE ProcessStored(_get_or_create_session(store, session_id, t), session_id,
                       history, message_text, idx, rendered_empty, t)

(* POST /reset *)
reset(store, session_id) ==
    [k \in DOMAIN store \ {session_id} |-> store[k]]

NoExport ==
    [ serial |-> 0, session_id |-> "", known |-> FALSE, session |-> NewSession(0),
      response |-> _build_export(EmptyStore, "") ]

(***************************************************************************)
(* osint_enricher.py: one dispatch of OSINTEnricher.enrich_async and the   *)
(* background thread it starts.  artifacts_dict is the caller's dict, a    *)
(* function from the keys it has to lists; the thread holds a reference    *)
(* to it, not a copy.  A URL is its text and the domain _extract_domain    *)
(* finds in it ("" for None).                                              *)
(***************************************************************************)
NoDict == [k \in {} |-> <<>>]

NewEnrichment ==
    [ virustotal |-> <<>>, holehe |-> <<>>, shodan |-> <<>>,
      status |-> "pending", safe_mode |-> FALSE ]

NoEnrichment ==
    [ pc |-> "idle", session_id |-> "", artifacts_dict |-> NoDict,
      at_dispatch |-> NoDict, skip_holehe |-> TRUE, vt_key |-> FALSE,
      shodan_key |-> FALSE, phishing_links |-> <<>>, emails |-> <<>>, i |-> 1,
      seen_domains |-> {}, enrichment |-> NewEnrichment, safe_mode |-> FALSE ]

(* the enricher: tasks, one record per enrich_async call in the order of   *)
(* the calls, and _results, which holds for a session a reference to the   *)
(* OSINTEnrichment object of one of them (the task's number)               *)
NoOsint == [ tasks |-> <<>>, _results |-> [k \in {} |-> 0] ]

dict_pop(d, key) ==
    [ dict |-> [k \in DOMAIN d \ {key} |-> d[k]],
      value |-> IF key \in DOMAIN d THEN d[key] ELSE <<>> ]

(* artifacts_dict.get(key, []): the dict afterwards and the value read *)
dict_get(d, key) ==
    [ dict |-> d, value |-> IF key \in DOMAIN d THEN d[key] ELSE <<>> ]

(* the entry a module call leaves in its result list: the module's result, *)
(* or the error entry built when the call raised                           *)
ModuleResult(target, raised) ==
    [ target |-> target, error |-> IF raised THEN "dispatch error" ELSE "" ]

(* enrich_async taking no notice of the safe mode *)
enrich_async_unguarded(session_id, artifacts_dict, skip_holehe, safe_mode, vt_key, shodan_key) ==
    [ NoEnrichment EXCEPT
        !.pc = "dispatched",
        !.session_id = session_id,
        !.safe_mode = safe_mode,
        !.artifacts_dict = artifacts_dict,
        !.at_dispatch = artifacts_dict,
        !.skip_holehe = skip_holehe,
        !.vt_key = vt_key,
        !.shodan_key = shodan_key ]

(* OSINTEnricher.enrich_async: safe_mode is what _is_safe_mode() returns   *)
(* at the call, vt_key and shodan_key whether the module has the API keys  *)
enrich_async(session_id, artifacts_dict, skip_holehe, safe_mode, vt_key, shodan_key) ==
    [ NoEnrichment EXCEPT
        !.pc = IF safe_mode THEN "skipped" ELSE "dispatched",
        !.session_id = session_id,
        !.safe_mode = safe_mode,
        !.artifacts_dict = artifacts_dict,
        !.at_dispatch = artifacts_dict,
        !.skip_holehe = skip_holehe,
        !.vt_key = vt_key,
        !.shodan_key = shodan_key,
        !.enrichment = IF safe_mode
                       THEN [NewEnrichment EXCEPT !.status = "skipped", !.safe_mode = TRUE]
                       ELSE NewEnrichment ]

(* _run_enrichment up to the VirusTotal loop: the enrichment is registered *)
(* as running, the phishing links are read                                 *)
RunBegin(o) ==
    LET got == dict_get(o.artifacts_dict, "phishing_links")
    IN  [ o EXCEPT !.pc = "virustotal", !.artifacts_dict = got.dict,
                   !.phishing_links = got.value, !.i = 1,
                   !.enrichment = [NewEnrichment EXCEPT !.status = "running"] ]

VirusTotalPending(o) ==
    /\ o.phishing_links # <<>> /\ o.vt_key
    /\ o.i <= Min(MaxVirusTotalUrls, Len(o.phishing_links))

(* one pass of the VirusTotal loop *)
VirusTotalStep(o, raised) ==
    [ o EXCEPT !.i = @ + 1,
               !.enrichment.virustotal =
                   Append(@, ModuleResult(o.phishing_links[o.i].url, raised)) ]

(* the emails are read *)
HoleheBegin(o) ==
    LET got == dict_get(o.artifacts_dict, "emails")
    IN  [ o EXCEPT !.pc = "holehe", !.artifacts_dict = got.dict,
                   !.emails = got.value, !.i = 1 ]

HolehePending(o) ==
    /\ o.emails # <<>> /\ ~o.skip_holehe
    /\ o.i <= Min(MaxHoleheEmails, Len(o.emails))

(* one pass of the Holehe loop *)
HoleheStep(o, raised) ==
    [ o EXCEPT !.i = @ + 1,
               !.enrichment.holehe = Append(@, ModuleResult(o.emails[o.i], raised)) ]

ShodanBegin(o) == [ o EXCEPT !.pc = "shodan", !.i = 1, !.seen_domains = {} ]

ShodanPending(o) ==
    /\ o.phishing_links # <<>> /\ o.shodan_key
    /\ o.i <= Min(MaxShodanUrls, Len(o.phishing_links))

(* one pass of the Shodan loop: a URL with no domain, or with one already  *)
(* seen, is passed over                                                    *)
ShodanStep(o, raised) ==
    LET domain == o.phishing_links[o.i].domain
    IN  IF domain # "" /\ domain \notin o.seen_domains
        THEN [ o EXCEPT !.i = @ + 1, !.seen_domains = @ \cup {domain},
                        !.enrichment.shodan = Append(@, ModuleResult(domain, raised)) ]
        ELSE [ o EXCEPT !.i = @ + 1 ]

RunFinallyStatusKept(o) == [ o EXCEPT !.pc = "done" ]

(* the finally clause *)
RunFinally(o) == [ o EXCEPT !.pc = "done", !.enrichment.status = "completed" ]

(* self._results[session_id] = enrichment, for the enrichment of task k *)
StoreResult(results, session_id, k) ==
    [ s \in DOMAIN results \cup {session_id} |->
          IF s = session_id THEN k ELSE results[s] ]

(* OSINTEnricher.get_results: the stored enrichment as a dict, or {} *)
get_results(os, session_id) ==
    IF session_id \in DOMAIN os._results
    THEN [ found |-> TRUE, task |-> os._results[session_id],
           result |-> os.tasks[os._results[session_id]].enrichment ]
    ELSE [ found |-> FALSE, task |-> 0, result |-> NewEnrichment ]

(***************************************************************************)
(* src/anchor_api_server.py, the stateless server: POST /process as the    *)
(* steps its worker thread takes on the state the workers share            *)
(* (_session_last_intel, the enricher, the callback endpoint), and POST    *)
(* /reset.                                                                 *)
(***************************************************************************)
MinCallbackTurns == 3

(* the lists a set becomes under list(set(...)): any order *)
RECURSIVE Orders(_)
Orders(S) ==
    IF S = {} THEN {<<>>}
    ELSE UNION { { <<x>> \o q : q \in Orders(S \ {x}) } : x \in S }

(* ExtractedArtifacts.to_dict: the two lists the enrichment reads in the   *)
(* order given, the others as the memory holds them                        *)
to_dict(artifacts, links, emails) ==
    [ k \in Categories |->
        CASE k = "phishing_links" -> links
          [] k = "emails" -> emails
          [] OTHER -> artifacts[k] ]

IntelCount(artifacts, keywords) ==
    Cardinality(artifacts.upi_ids) + Len(artifacts.bank_accounts)
      + Cardinality(artifacts.phishing_links) + Len(artifacts.phone_numbers)
      + Cardinality(keywords)

(* process up to the dispatch of the enrichment: a fresh agent, the        *)
(* history replayed into its memory, the message processed                 *)
Handled(history, message_text, idx, rendered_empty) ==
    LET r == process_api_message(
                 rebuild_agent_from_history_stateless(NewAgent, history), idx,
                 [message |-> Str(message_text), text |-> Absent, content |-> Absent],
                 rendered_empty)
    IN  [ survival_idx |-> r.survival_idx,
          artifacts |-> r.agent.memory.cumulative_artifacts,
          turns |-> r.agent.memory.metrics.scammer_turns,
          keywords |-> SuspiciousKeywords(history, message_text) ]

(* a request being handled: where its worker stands and the locals it holds *)
NoCall ==
    [ pc |-> "idle", session_id |-> "", turns |-> 0, intel_count |-> 0,
      last_count |-> 0, task |-> 0, osint_data |-> "" ]

CallbackDueAlways(c) == c.intel_count > 0

(* has_intel and turns >= 3 and intel_count > last_count *)
CallbackDue(c) ==
    c.intel_count > 0 /\ c.turns >= MinCallbackTurns /\ c.intel_count > c.last_count

(***************************************************************************)
(* State.  agent[s]: the AnchorAgent of session s.  agent_survival_idx:    *)
(* the module-level counter of anchor_agent.py.  trace[s]: the outputs     *)
(* process_api_message returned for s from the initial state on, oldest    *)
(* first.  phase[s]: "new"                                                 *)
(* (just created), "rebuilt" (a server rebuilt it from request[s]),        *)
(* "live" (processed messages directly), "served" (the server's request    *)
(* is answered and the agent dropped), "aborted" (the rebuild raised: the  *)
(* server's except clause answered with a survival line, the request's     *)
(* message never reached the agent).  view, extracted: the input and       *)
(* the result of a direct ArtifactExtractor.extract call.                  *)
(* reply: a candidate reply text at get_response's enforcement step and    *)
(* the turn count it runs with.  merged: two ExtractedArtifacts and the    *)
(* first after a.merge(b) was called merges times.  scorer: a              *)
(* BehaviorScorer of its own, score_turn called on it directly.            *)
(***************************************************************************)
VARIABLES agent, agent_survival_idx, trace, phase, request, view, extracted,
          reply, merged, scorer,
          _session_store, _survival_counter, now, exported, osint,
          inflight, _session_last_intel, callbacks

Requests == {"r1", "r2"}

(* inflight[r]: the request r being handled.  _session_last_intel: the     *)
(* dict of the stateless server.  callbacks[s]: the callbacks sent for     *)
(* session s since its last reset.                                         *)
requestVars == <<inflight, _session_last_intel, callbacks>>

serverVars == <<_session_store, _survival_counter, now, exported, requestVars>>

vars == <<agent, agent_survival_idx, trace, phase, request, view, extracted,
          reply, merged, scorer, serverVars, osint>>

(* no request has reached the server, nothing was dispatched for enrichment *)
ServerIdle ==
    /\ _session_store = EmptyStore
    /\ _survival_counter = 0
    /\ now = 0
    /\ exported = NoExport
    /\ osint = NoOsint
    /\ inflight = [r \in Requests |-> NoCall]
    /\ _session_last_intel = [k \in {} |-> 0]
    /\ callbacks = [s \in Sessions |-> <<>>]

Primary == "s1"
SessionOrder == <<"s1", "s2">>

NoRequest == [server |-> "none", history |-> <<>>]
NoView ==
    [ numbers |-> <<>>, handles |-> <<>>, banking_context |-> FALSE,
      phone_context |-> FALSE, ifsc |-> "", swift |-> "", routing |-> "",
      mails |-> <<>> ]
NotExtracted == [called |-> FALSE, raised |-> {}, result |-> NoArtifacts]
NoReply == [clean |-> <<>>, text |-> <<>>, turn_count |-> 0, stage |-> "none"]
NotMerged ==
    [ a |-> NoArtifacts, b |-> NoArtifacts, start |-> NoArtifacts,
      once |-> NoArtifacts, merges |-> 0, other |-> "none" ]

InitFresh ==
    /\ agent = [s \in Sessions |-> NewAgent]
    /\ agent_survival_idx = 0
    /\ trace = [s \in Sessions |-> <<>>]
    /\ phase = [s \in Sessions |-> "new"]
    /\ request = [s \in Sessions |-> NoRequest]
    /\ view = NoView
    /\ extracted = NotExtracted
    /\ reply = NoReply
    /\ merged = NotMerged
    /\ scorer = NewScorer
    /\ ServerIdle

(* the agent after it processed the texts of a sequence, all rendered *)
RECURSIVE AgentAfter(_, _)
AgentAfter(ag, texts) ==
    IF texts = <<>> THEN ag
    ELSE AgentAfter(
            process_api_message(ag, 0,
                [message |-> Str(Head(texts)), text |-> Absent, content |-> Absent],
                FALSE).agent,
            Tail(texts))

(* a session that has already taken three payment handles *)
WarmTexts == << <<"send to user@ybl">>, <<"send to user@ybl">>, <<"send to user@ybl">> >>

InitWarm ==
    /\ agent = [s \in Sessions |-> IF s = Primary THEN AgentAfter(NewAgent, WarmTexts)
                                                  ELSE NewAgent]
    /\ agent_survival_idx = 0
    /\ trace = [s \in Sessions |-> <<>>]
    /\ phase = [s \in Sessions |-> IF s = Primary THEN "live" ELSE "new"]
    /\ request = [s \in Sessions |-> NoRequest]
    /\ view = NoView
    /\ extracted = NotExtracted
    /\ reply = NoReply
    /\ merged = NotMerged
    /\ scorer = NewScorer
    /\ ServerIdle

Init == InitFresh \/ InitWarm

Last(q) == q[Len(q)]

(* what the servers hand to process_api_message: {"message": message_text} *)
ServerInputs ==
    { [message |-> Str(m), text |-> Absent, content |-> Absent] :
        m \in Messages \cup {EmptyText} }

(* one call of agent[s].process_api_message *)
Process(s, input_json, rendered_empty) ==
    /\ phase[s] \in {"new", "live", "rebuilt"}
    /\ phase[s] = "rebuilt" => input_json \in ServerInputs
    /\ Len(trace[s]) < MaxTurns
    /\ \E r \in {process_api_message(agent[s], agent_survival_idx, input_json, rendered_empty)} :
           /\ r.survival_idx <= MaxSurvival
           /\ agent' = [agent EXCEPT ![s] = r.agent]
           /\ agent_survival_idx' = r.survival_idx
           /\ trace' = [trace EXCEPT ![s] = Append(@, r.output)]
    /\ phase' = [phase EXCEPT ![s] = IF @ = "rebuilt" THEN "served" ELSE "live"]
    /\ UNCHANGED <<request, view, extracted, reply, merged, scorer, serverVars, osint>>

(* src/anchor_api_server.py process: create_agent, rebuild_agent_from_history *)
RebuildStateless(s, history) ==
    /\ phase[s] = "new"
    /\ agent' = [agent EXCEPT ![s] =
                     rebuild_agent_from_history_stateless(@, ReplayedPrefix(history))]
    /\ phase' = [phase EXCEPT ![s] = IF ReplayRaises(history) THEN "aborted" ELSE "rebuilt"]
    /\ request' = [request EXCEPT ![s] = [server |-> "stateless", history |-> history]]
    /\ UNCHANGED <<agent_survival_idx, trace, view, extracted, reply, merged, scorer, serverVars, osint>>

(* src/Anchor/anchor_api_server.py process: create_agent, rebuild_agent_from_history *)
RebuildEval(s, history) ==
    /\ phase[s] = "new"
    /\ agent' = [agent EXCEPT ![s] =
                     rebuild_agent_from_history_eval(@, ReplayedPrefix(history))]
    /\ phase' = [phase EXCEPT ![s] = IF ReplayRaises(history) THEN "aborted" ELSE "rebuilt"]
    /\ request' = [request EXCEPT ![s] = [server |-> "eval", history |-> history]]
    /\ UNCHANGED <<agent_survival_idx, trace, view, extracted, reply, merged, scorer, serverVars, osint>>

Next ==
    \/ \E input_json \in InputJsons, rendered_empty \in BOOLEAN :
          Process(Primary, input_json, rendered_empty)
    \/ \E history \in Histories : RebuildStateless(Primary, history)
    \/ \E history \in Histories : RebuildEval(Primary, history)

Spec == Init /\ [][Next]_vars

(* the servers' /process on requests whose history may hold malformed entries *)
NextReplay ==
    \/ \E input_json \in ServerInputs, rendered_empty \in BOOLEAN :
          Process(Primary, input_json, rendered_empty)
    \/ \E history \in ReplayHistories : RebuildStateless(Primary, history)
    \/ \E history \in ReplayHistories : RebuildEval(Primary, history)

SpecReplay == InitFresh /\ [][NextReplay]_vars

(* the text of a reply as a history carries it: the replay looks only at   *)
(* whether it is empty                                                     *)
ReplyText(response) ==
    IF IsEmptyReply(response) THEN EmptyText ELSE <<"agent reply">>

(* the conversationHistory a client holds after the exchanges of a trace:  *)
(* each message it sent and the reply it got, oldest first                 *)
ExchangeHistory(tr) ==
    Concat([i \in 1..Len(tr) |->
               IF tr[i].error THEN <<>>
               ELSE << [sender |-> "scammer", text |-> tr[i].message],
                       [sender |-> "agent", text |-> ReplyText(tr[i].response)] >>])

(* a session kept live in one agent, and a request to the evaluation       *)
(* server whose history holds the live session's exchanges so far          *)
NextRebuilt ==
    \/ \E input_json \in ServerInputs, rendered_empty \in BOOLEAN :
          Process("s1", input_json, rendered_empty)
    \/ RebuildEval("s2", ExchangeHistory(trace["s1"]))
    \/ \E input_json \in ServerInputs, rendered_empty \in BOOLEAN :
          phase["s2"] = "rebuilt" /\ Process("s2", input_json, rendered_empty)

SpecRebuilt == InitFresh /\ [][NextRebuilt]_vars

(* agent[s].reset_session(), once in a session's life: the outputs are      *)
(* counted from the reset on                                                *)
ResetAgent(s) ==
    /\ phase[s] = "live"
    /\ request[s].server = "none"
    /\ agent' = [agent EXCEPT ![s] = reset_session(@)]
    /\ trace' = [trace EXCEPT ![s] = <<>>]
    /\ phase' = [phase EXCEPT ![s] = "new"]
    /\ request' = [request EXCEPT ![s] = [server |-> "reset", history |-> <<>>]]
    /\ UNCHANGED <<agent_survival_idx, view, extracted, reply, merged, scorer,
                   serverVars, osint>>

(* one session that processes messages and is reset *)
NextReset ==
    \/ \E input_json \in ServerInputs, rendered_empty \in BOOLEAN :
          Process(Primary, input_json, rendered_empty)
    \/ ResetAgent(Primary)

SpecReset == InitFresh /\ [][NextReset]_vars

(***************************************************************************)
(* ArtifactExtractor.extract called directly on one text: its digit runs,  *)
(* and whether it holds a banking and a phone context keyword              *)
(***************************************************************************)
Tokens ==
    { NumStr(FALSE, <<1, 2, 3, 4, 5, 6, 7, 8, 9, 0>>),
      NumStr(FALSE, <<9, 8, 7, 6, 5, 4, 3, 2, 1, 0>>),
      NumStr(FALSE, <<7, 1, 2, 3, 4, 5, 6, 7, 8, 9>>),
      NumStr(FALSE, <<6, 1, 1, 1, 1, 1, 1, 1, 1, 1>>),
      NumStr(TRUE, <<9, 1, 9, 8, 7, 6, 5, 4, 3, 2, 1, 0>>),
      NumStr(FALSE, <<1, 2, 3, 4, 5, 6, 7, 8, 9>>),
      NumStr(FALSE, <<5, 0, 1, 0, 0, 2, 3, 4, 5, 6, 7, 8>>) }

Views ==
    { [ numbers |-> q, handles |-> <<>>, banking_context |-> b, phone_context |-> c,
        ifsc |-> "", swift |-> "", routing |-> "", mails |-> <<>> ] :
        q \in SeqsUpTo(Tokens, MaxTokens) \ {<<>>}, b \in BOOLEAN, c \in BOOLEAN }

(* texts that hold payment handles and e-mail addresses *)
MailViews ==
    { [ numbers |-> q, handles |-> h, banking_context |-> TRUE, phone_context |-> FALSE,
        ifsc |-> "", swift |-> "", routing |-> "", mails |-> m ] :
        q \in { <<NumStr(FALSE, <<9, 8, 7, 6, 5, 4, 3, 2, 1, 0>>)>>,
                <<NumStr(FALSE, <<5, 0, 1, 0, 0, 2, 3, 4, 5, 6, 7, 8>>)>> },
        h \in { <<>>, << <<"user", "ybl">> >>,
                << <<"user", "ybl">>, <<"bob", "gmail">> >> },
        m \in { << <<"bob", "gmail", "com">> >>,
                << <<"user", "ybl", "com">>, <<"bob", "gmail", "com">> >> } }

InitExtract ==
    /\ agent = [s \in Sessions |-> NewAgent]
    /\ agent_survival_idx = 0
    /\ trace = [s \in Sessions |-> <<>>]
    /\ phase = [s \in Sessions |-> "new"]
    /\ request = [s \in Sessions |-> NoRequest]
    /\ view \in Views \cup MailViews
    /\ extracted = NotExtracted
    /\ reply = NoReply
    /\ merged = NotMerged
    /\ scorer = NewScorer
    /\ ServerIdle

ExtractCall ==
    /\ ~extracted.called
    /\ extracted' = [called |-> TRUE, raised |-> {}, result |-> ExtractView(view)]
    /\ UNCHANGED <<agent, agent_survival_idx, trace, phase, request, view, reply, merged, scorer, serverVars, osint>>

(* extract(text) while the sub-extractions of the categories in raised raise *)
ExtractRaising(raised) ==
    /\ ~extracted.called
    /\ extracted' = [called |-> TRUE, raised |-> raised,
                     result |-> ExtractGuarded(view, raised)]
    /\ UNCHANGED <<agent, agent_survival_idx, trace, phase, request, view, reply, merged, scorer, serverVars, osint>>

NextExtract ==
    \/ ExtractCall
    \/ \E c \in Categories : ExtractRaising({c})

SpecExtract == InitExtract /\ [][NextExtract]_vars

(***************************************************************************)
(* get_response's enforcement step on one sanitized reply                  *)
(***************************************************************************)
ReplyTexts == SeqsUpTo(ReplyPieces, MaxReplyLen)

InitReply ==
    /\ agent = [s \in Sessions |-> NewAgent]
    /\ agent_survival_idx = 0
    /\ trace = [s \in Sessions |-> <<>>]
    /\ phase = [s \in Sessions |-> "new"]
    /\ request = [s \in Sessions |-> NoRequest]
    /\ view = NoView
    /\ extracted = NotExtracted
    /\ \E clean \in ReplyTexts, n \in 0..MaxTurnCount :
          reply = [clean |-> clean, text |-> clean, turn_count |-> n, stage |-> "clean"]
    /\ merged = NotMerged
    /\ scorer = NewScorer
    /\ ServerIdle

EnforceCall ==
    /\ reply.stage = "clean"
    /\ reply' = [reply EXCEPT !.text = Enforced(reply.clean, reply.turn_count),
                              !.stage = "enforced"]
    /\ UNCHANGED <<agent, agent_survival_idx, trace, phase, request, view, extracted,
                   merged, scorer, serverVars, osint>>

NextReply == EnforceCall
SpecReply == InitReply /\ [][NextReply]_vars

(***************************************************************************)
(* ExtractedArtifacts.merge called on two extraction results, or on one    *)
(* and itself                                                              *)
(***************************************************************************)
MergeOperands ==
    { ExtractView(v) : v \in Views } \cup { Extract(t) : t \in HistoryTexts }

InitMerge ==
    /\ agent = [s \in Sessions |-> NewAgent]
    /\ agent_survival_idx = 0
    /\ trace = [s \in Sessions |-> <<>>]
    /\ phase = [s \in Sessions |-> "new"]
    /\ request = [s \in Sessions |-> NoRequest]
    /\ view = NoView
    /\ extracted = NotExtracted
    /\ reply = NoReply
    /\ \E a \in MergeOperands, b \in MergeOperands :
          merged = [ a |-> a, b |-> b, start |-> a, once |-> a, merges |-> 0,
                     other |-> "none" ]
    /\ scorer = NewScorer
    /\ ServerIdle

(* a.merge(b) *)
MergeOther ==
    /\ merged.other \in {"none", "b"}
    /\ merged.merges < MaxMerges
    /\ \E r \in {Merge(merged.a, merged.b)} :
          merged' = [merged EXCEPT !.a = r,
                                   !.once = IF merged.merges = 0 THEN r ELSE @,
                                   !.merges = @ + 1,
                                   !.other = "b"]
    /\ UNCHANGED <<agent, agent_survival_idx, trace, phase, request, view, extracted,
                   reply, scorer, serverVars, osint>>

(* a.merge(a) *)
MergeSelf ==
    /\ merged.other \in {"none", "self"}
    /\ merged.merges < MaxMerges
    /\ \E r \in {Merge(merged.a, merged.a)} :
          merged' = [merged EXCEPT !.a = r,
                                   !.once = IF merged.merges = 0 THEN r ELSE @,
                                   !.merges = @ + 1,
                                   !.other = "self"]
    /\ UNCHANGED <<agent, agent_survival_idx, trace, phase, request, view, extracted,
                   reply, scorer, serverVars, osint>>

NextMerge == MergeOther \/ MergeSelf
SpecMerge == InitMerge /\ [][NextMerge]_vars

(***************************************************************************)
(* BehaviorScorer.score_turn called on a scorer of its own                 *)
(***************************************************************************)
InitScorer ==
    /\ agent = [s \in Sessions |-> NewAgent]
    /\ agent_survival_idx = 0
    /\ trace = [s \in Sessions |-> <<>>]
    /\ phase = [s \in Sessions |-> "new"]
    /\ request = [s \in Sessions |-> NoRequest]
    /\ view = NoView
    /\ extracted = NotExtracted
    /\ reply = NoReply
    /\ merged = NotMerged
    /\ scorer = NewScorer
    /\ ServerIdle

ScoreTurn(text) ==
    /\ turn_count(scorer) < MaxScored
    /\ scorer' = score_turn(scorer, text)
    /\ UNCHANGED <<agent, agent_survival_idx, trace, phase, request, view, extracted,
                   reply, merged, serverVars, osint>>

NextScorer == \E text \in ScorerTexts : ScoreTurn(text)
SpecScorer == InitScorer /\ [][NextScorer]_vars

(***************************************************************************)
(* The evaluation server: requests to /process for one session id, to      *)
(* /export/session/<id> and /reset for that id and for another, handled    *)
(* one at a time, every reply rendered non-empty, and the clock            *)
(* time.time() reads.  exported: the last export, with the session it was  *)
(* built from; serial flips at every export.                               *)
(***************************************************************************)
StoreMessages ==
    { EmptyText, <<"hello there">>, <<"send to user@ybl", "police will arrest you">> }

StoreHistories ==
    { <<>>, <<[sender |-> "scammer", text |-> <<"send to user@ybl">>]>>,
      <<NotAnObject>> }

ProcessRequest(session_id, history, message_text, rendered_empty) ==
    /\ session_id \in DOMAIN _session_store
          => _session_store[session_id].total_messages < MaxStored
    /\ \E r \in {process(_session_store, session_id, history, message_text,
                         agent_survival_idx, rendered_empty, now)} :
           /\ r.agent_idx <= MaxSurvival
           /\ _survival_counter + r.survived <= MaxSurvival
           /\ _session_store' = r.store
           /\ agent_survival_idx' = r.agent_idx
           /\ _survival_counter' = _survival_counter + r.survived
    /\ UNCHANGED <<agent, trace, phase, request, view, extracted, reply, merged,
                   scorer, now, exported, osint, requestVars>>

ExportSession(session_id) ==
    /\ \E r \in {export_session(_session_store, session_id, now)} :
           /\ _session_store' = r.store
           /\ exported' =
                  [ serial |-> 1 - exported.serial, session_id |-> session_id,
                    known |-> session_id \in DOMAIN _session_store,
                    session |-> IF session_id \in DOMAIN _session_store
                                THEN _session_store[session_id] ELSE NewSession(0),
                    response |-> r.response ]
    /\ UNCHANGED <<agent, agent_survival_idx, trace, phase, request, view, extracted,
                   reply, merged, scorer, _survival_counter, now, osint, requestVars>>

ResetSession(session_id) ==
    /\ _session_store' = reset(_session_store, session_id)
    /\ UNCHANGED <<agent, agent_survival_idx, trace, phase, request, view, extracted,
                   reply, merged, scorer, _survival_counter, now, exported, osint,
                   requestVars>>

(* time passes between two requests *)
Tick(d) ==
    /\ now + d <= MaxNow
    /\ now' = now + d
    /\ UNCHANGED <<agent, agent_survival_idx, trace, phase, request, view, extracted,
                   reply, merged, scorer, _session_store, _survival_counter,
                   exported, osint, requestVars>>

NextStore ==
    \/ \E history \in StoreHistories, message_text \in StoreMessages :
           ProcessRequest(Primary, history, message_text, FALSE)
    \/ \E session_id \in Sessions : ExportSession(session_id)
    \/ \E session_id \in Sessions : ResetSession(session_id)
    \/ \E d \in {ShortWait, LongWait} : Tick(d)

SpecStore == InitFresh /\ [][NextStore]_vars

(***************************************************************************)
(* One enrichment: the dispatch, then the steps of the background thread.  *)
(* A module call returns or raises; an exception outside the module calls  *)
(* ends the loops at the catch-all.                                        *)
(***************************************************************************)
OsintArtifacts ==
    { NoDict,
      [k \in {"phishing_links", "emails"} |-> <<>>],
      [k \in {"phishing_links", "emails", "upi_ids", "bank_accounts", "phone_numbers"} |->
          CASE k = "phishing_links" -> <<Url("http://phish.example.com", "phish.example.com")>>
            [] k = "emails" -> <<"test@test.com">>
            [] k = "upi_ids" -> <<"victim@upi">>
            [] k = "bank_accounts" -> <<"1234567890">>
            [] k = "phone_numbers" -> <<"9876543210">>],
      [k \in {"phishing_links", "emails"} |->
          CASE k = "phishing_links" ->
                   << Url("http://a.example.com/1", "a.example.com"),
                      Url("http://a.example.com/2", "a.example.com"),
                      Url("localhost", ""),
                      Url("b.example.com", "b.example.com"),
                      Url("http://a.example.com/3", "a.example.com"),
                      Url("http://c.example.com", "c.example.com") >>
            [] k = "emails" -> <<"a@test.com", "b@test.com", "c@test.com", "d@test.com">>] }

InitOsint ==
    /\ agent = [s \in Sessions |-> NewAgent]
    /\ agent_survival_idx = 0
    /\ trace = [s \in Sessions |-> <<>>]
    /\ phase = [s \in Sessions |-> "new"]
    /\ request = [s \in Sessions |-> NoRequest]
    /\ view = NoView
    /\ extracted = NotExtracted
    /\ reply = NoReply
    /\ merged = NotMerged
    /\ scorer = NewScorer
    /\ ServerIdle

(* the enricher once task k stands at o, its enrichment stored or not *)
OsintAfter(os, k, o, stores) ==
    [ tasks |-> IF k \in DOMAIN os.tasks
                THEN [os.tasks EXCEPT ![k] = o]
                ELSE Append(os.tasks, o),
      _results |-> IF stores
                   THEN StoreResult(os._results, o.session_id, k)
                   ELSE os._results ]

OsintStep(k, o, stores) ==
    /\ osint' = OsintAfter(osint, k, o, stores)
    /\ UNCHANGED <<agent, agent_survival_idx, trace, phase, request, view, extracted,
                   reply, merged, scorer, serverVars>>

Threads == DOMAIN osint.tasks

(* the call stores the skipped enrichment in safe mode, and nothing else *)
EnrichAsync(session_id, artifacts_dict, skip_holehe, safe_mode, vt_key, shodan_key) ==
    \E o \in {enrich_async(session_id, artifacts_dict, skip_holehe, safe_mode,
                           vt_key, shodan_key)} :
        OsintStep(Len(osint.tasks) + 1, o, o.pc = "skipped")

ThreadStart(k) ==
    /\ osint.tasks[k].pc = "dispatched"
    /\ OsintStep(k, RunBegin(osint.tasks[k]), TRUE)

VirusTotal(k, raised) ==
    /\ osint.tasks[k].pc = "virustotal"
    /\ VirusTotalPending(osint.tasks[k])
    /\ OsintStep(k, VirusTotalStep(osint.tasks[k], raised), FALSE)

VirusTotalDone(k) ==
    /\ osint.tasks[k].pc = "virustotal"
    /\ ~VirusTotalPending(osint.tasks[k])
    /\ OsintStep(k, HoleheBegin(osint.tasks[k]), FALSE)

Holehe(k, raised) ==
    /\ osint.tasks[k].pc = "holehe"
    /\ HolehePending(osint.tasks[k])
    /\ OsintStep(k, HoleheStep(osint.tasks[k], raised), FALSE)

HoleheDone(k) ==
    /\ osint.tasks[k].pc = "holehe"
    /\ ~HolehePending(osint.tasks[k])
    /\ OsintStep(k, ShodanBegin(osint.tasks[k]), FALSE)

Shodan(k, raised) ==
    /\ osint.tasks[k].pc = "shodan"
    /\ ShodanPending(osint.tasks[k])
    /\ OsintStep(k, ShodanStep(osint.tasks[k], raised), FALSE)

ShodanDone(k) ==
    /\ osint.tasks[k].pc = "shodan"
    /\ ~ShodanPending(osint.tasks[k])
    /\ OsintStep(k, [osint.tasks[k] EXCEPT !.pc = "finally"], FALSE)

(* an exception none of the module handlers catches *)
Crash(k) ==
    /\ osint.tasks[k].pc \in {"virustotal", "holehe", "shodan"}
    /\ OsintStep(k, [osint.tasks[k] EXCEPT !.pc = "finally"], FALSE)

Finally(k) ==
    /\ osint.tasks[k].pc = "finally"
    /\ OsintStep(k, RunFinally(osint.tasks[k]), TRUE)

(* the steps of the background thread of task k *)
ThreadStep(k) ==
    /\ k \in Threads
    /\ \/ ThreadStart(k)
       \/ \E raised \in BOOLEAN : VirusTotal(k, raised)
       \/ VirusTotalDone(k)
       \/ \E raised \in BOOLEAN : Holehe(k, raised)
       \/ HoleheDone(k)
       \/ \E raised \in BOOLEAN : Shodan(k, raised)
       \/ ShodanDone(k)
       \/ Crash(k)
       \/ Finally(k)

(* one enrichment *)
NextOsint ==
    \/ \E artifacts_dict \in OsintArtifacts,
          skip_holehe, safe_mode, vt_key, shodan_key \in BOOLEAN :
           /\ osint.tasks = <<>>
           /\ EnrichAsync(Primary, artifacts_dict, skip_holehe, safe_mode, vt_key, shodan_key)
    \/ \E k \in Threads : ThreadStart(k)
    \/ \E k \in Threads, raised \in BOOLEAN : VirusTotal(k, raised)
    \/ \E k \in Threads : VirusTotalDone(k)
    \/ \E k \in Threads, raised \in BOOLEAN : Holehe(k, raised)
    \/ \E k \in Threads : HoleheDone(k)
    \/ \E k \in Threads, raised \in BOOLEAN : Shodan(k, raised)
    \/ \E k \in Threads : ShodanDone(k)
    \/ \E k \in Threads : Crash(k)
    \/ \E k \in Threads : Finally(k)

SpecOsint == InitOsint /\ [][NextOsint]_vars

(* several enrichments of one session, their threads running side by side: *)
(* dicts of one phishing link, the VirusTotal key set, no Shodan key,      *)
(* Holehe skipped                                                          *)
PairArtifacts ==
    { [k \in {"phishing_links"} |-> <<Url("http://a.example.com/1", "a.example.com")>>],
      [k \in {"phishing_links"} |-> <<Url("http://c.example.com", "c.example.com")>>] }

NextOsintPair ==
    \/ \E artifacts_dict \in PairArtifacts, safe_mode \in BOOLEAN :
           /\ Len(osint.tasks) < MaxDispatches
           /\ EnrichAsync(Primary, artifacts_dict, TRUE, safe_mode, TRUE, FALSE)
    \/ \E k \in Threads : ThreadStart(k)
    \/ \E k \in Threads, raised \in BOOLEAN : VirusTotal(k, raised)
    \/ \E k \in Threads : VirusTotalDone(k)
    \/ \E k \in Threads : HoleheDone(k)
    \/ \E k \in Threads : ShodanDone(k)
    \/ \E k \in Threads : Crash(k)
    \/ \E k \in Threads : Finally(k)

SpecOsintPair == InitOsint /\ [][NextOsintPair]_vars

(* the stateless server under concurrent requests for one session, on a   *)
(* deployment outside safe mode with a VirusTotal key and no Shodan key    *)
ServedHistories ==
    { <<>>,
      << [sender |-> "scammer", text |-> <<"send to user@ybl">>],
         [sender |-> "scammer", text |-> <<"pay the fee">>] >> }

ServedMessages ==
    { <<"hello there">>, <<"verify your number">>, <<"open http://phish.example.com">> }

(* process, from the request to the dispatch of the enrichment *)
Handle(r, history, message_text) ==
    /\ inflight[r].pc = "idle"
    /\ \E h \in {Handled(history, message_text, agent_survival_idx, FALSE)} :
       \E links \in Orders(h.artifacts.phishing_links),
          emails \in Orders(h.artifacts.emails) :
           /\ h.survival_idx <= MaxSurvival
           /\ agent_survival_idx' = h.survival_idx
           /\ osint' = OsintAfter(osint, Len(osint.tasks) + 1,
                                  enrich_async(Primary, to_dict(h.artifacts, links, emails),
                                               TRUE, FALSE, TRUE, FALSE),
                                  FALSE)
           /\ inflight' = [inflight EXCEPT ![r] =
                  [ NoCall EXCEPT !.pc = "dispatched", !.session_id = Primary,
                                  !.turns = h.turns,
                                  !.intel_count = IntelCount(h.artifacts, h.keywords),
                                  !.task = Len(osint.tasks) + 1 ]]
    /\ UNCHANGED <<agent, trace, phase, request, view, extracted, reply, merged, scorer,
                   _session_store, _survival_counter, now, exported,
                   _session_last_intel, callbacks>>

RequestStep(r, c, last_intel, sent) ==
    /\ inflight' = [inflight EXCEPT ![r] = c]
    /\ _session_last_intel' = last_intel
    /\ callbacks' = sent
    /\ UNCHANGED <<agent, agent_survival_idx, trace, phase, request, view, extracted,
                   reply, merged, scorer, _session_store, _survival_counter, now,
                   exported, osint>>

(* last_count = _session_last_intel.get(session_id, 0), and the test *)
ReadLastIntel(r) ==
    /\ inflight[r].pc = "dispatched"
    /\ \E c \in {[inflight[r] EXCEPT !.last_count =
                       IF inflight[r].session_id \in DOMAIN _session_last_intel
                       THEN _session_last_intel[inflight[r].session_id] ELSE 0]} :
           RequestStep(r, [c EXCEPT !.pc = IF CallbackDue(c) THEN "callback" ELSE "poll"],
                       _session_last_intel, callbacks)

(* send_final_callback *)
SendCallback(r) ==
    /\ inflight[r].pc = "callback"
    /\ RequestStep(r, [inflight[r] EXCEPT !.pc = "record"], _session_last_intel,
                   [callbacks EXCEPT ![inflight[r].session_id] =
                       Append(@, [ intel_count |-> inflight[r].intel_count,
                                   turns |-> inflight[r].turns,
                                   last_count |-> inflight[r].last_count ])])

(* _session_last_intel[session_id] = intel_count *)
RecordIntel(r) ==
    /\ inflight[r].pc = "record"
    /\ RequestStep(r, [inflight[r] EXCEPT !.pc = "poll"],
                   [ s \in DOMAIN _session_last_intel \cup {inflight[r].session_id} |->
                       IF s = inflight[r].session_id THEN inflight[r].intel_count
                       ELSE _session_last_intel[s] ],
                   callbacks)

(* get_results, the response built and returned *)
Respond(r) ==
    /\ inflight[r].pc = "poll"
    /\ RequestStep(r, [inflight[r] EXCEPT
                          !.pc = "returned",
                          !.osint_data =
                              IF get_results(osint, inflight[r].session_id).found
                              THEN get_results(osint, inflight[r].session_id).result.status
                              ELSE ""],
                   _session_last_intel, callbacks)

(* POST /reset of the stateless server *)
ResetCallbacks(session_id) ==
    /\ session_id \in DOMAIN _session_last_intel
    /\ _session_last_intel' =
           [s \in DOMAIN _session_last_intel \ {session_id} |-> _session_last_intel[s]]
    /\ callbacks' = [callbacks EXCEPT ![session_id] = <<>>]
    /\ UNCHANGED <<agent, agent_survival_idx, trace, phase, request, view, extracted,
                   reply, merged, scorer, _session_store, _survival_counter, now,
                   exported, osint, inflight>>

NextStateless ==
    \/ \E r \in Requests, history \in ServedHistories, message_text \in ServedMessages :
           Handle(r, history, message_text)
    \/ \E r \in Requests : ReadLastIntel(r)
    \/ \E r \in Requests : SendCallback(r)
    \/ \E r \in Requests : RecordIntel(r)
    \/ \E r \in Requests : Respond(r)
    \/ ResetCallbacks(Primary)

(* two requests side by side, the enrichment threads not yet scheduled *)
SpecStateless == InitFresh /\ [][NextStateless]_vars

(* one request and the thread of the enrichment it dispatched *)
NextServed ==
    \/ \E history \in ServedHistories, message_text \in ServedMessages :
           Handle("r1", history, message_text)
    \/ ReadLastIntel("r1")
    \/ SendCallback("r1")
    \/ RecordIntel("r1")
    \/ Respond("r1")
    \/ \E k \in Threads : ThreadStart(k)
    \/ \E k \in Threads, raised \in BOOLEAN : VirusTotal(k, raised)
    \/ \E k \in Threads : VirusTotalDone(k)
    \/ \E k \in Threads : HoleheDone(k)
    \/ \E k \in Threads : ShodanDone(k)
    \/ \E k \in Threads : Crash(k)
    \/ \E k \in Threads : Finally(k)

SpecServed == InitFresh /\ [][NextServed]_vars

(* GET /export/session/<session_id> of the evaluation server as the steps  *)
(* of _build_export: the session dict is fetched under the lock, its       *)
(* fields are read after the lock is released.  seen: the values the       *)
(* session had at the reads.                                               *)
ExportBegin(r, session_id) ==
    /\ inflight[r].pc = "idle"
    /\ RequestStep(r,
           IF session_id \in DOMAIN _session_store
           THEN [ pc |-> "total", session_id |-> session_id, total |-> 0,
                  duration |-> 0, seen |-> <<>>,
                  response |-> _build_export(EmptyStore, session_id) ]
           ELSE [ pc |-> "exported", session_id |-> session_id, total |-> 0,
                  duration |-> 0, seen |-> <<>>,
                  response |-> _build_export(_session_store, session_id) ],
           _session_last_intel, callbacks)

(* total, real_duration and the duration computed from them *)
ExportReadTotal(r) ==
    /\ inflight[r].pc = "total"
    /\ \E session \in {_session_store[inflight[r].session_id]} :
           RequestStep(r, [inflight[r] EXCEPT
                              !.pc = "lists",
                              !.total = session.total_messages * 2,
                              !.duration = EngagementDuration(session),
                              !.seen = Append(@, session)],
                       _session_last_intel, callbacks)

(* the lists and scam_detected, the notes, the dict returned *)
ExportReadLists(r) ==
    /\ inflight[r].pc = "lists"
    /\ \E session \in {_session_store[inflight[r].session_id]} :
           RequestStep(r, [inflight[r] EXCEPT
                              !.pc = "exported",
                              !.seen = Append(@, session),
                              !.response =
                                  [ExportOf(inflight[r].session_id, session) EXCEPT
                                      !.totalMessagesExchanged = inflight[r].total,
                                      !.engagementDurationSeconds = inflight[r].duration]],
                       _session_last_intel, callbacks)

(* exports running beside the /process requests of the session *)
NextExport ==
    \/ \E history \in StoreHistories, message_text \in StoreMessages :
           ProcessRequest(Primary, history, message_text, FALSE)
    \/ \E r \in Requests, session_id \in Sessions : ExportBegin(r, session_id)
    \/ \E r \in Requests : ExportReadTotal(r)
    \/ \E r \in Requests : ExportReadLists(r)

SpecExport == InitFresh /\ [][NextExport]_vars

(* the session holds what the request had to merge *)
IntelMerged(session, c) ==
    /\ c.artifacts.upi_ids \subseteq session.upi_ids
    /\ c.artifacts.phishing_links \subseteq session.phishing_links
    /\ c.artifacts.emails \subseteq session.email_addresses
    /\ c.keywords \subseteq session.suspicious_keywords
    /\ \A k \in 1..Len(c.artifacts.bank_accounts) :
           \E j \in 1..Len(session.bank_accounts) :
               session.bank_accounts[j] = c.artifacts.bank_accounts[k]
    /\ \A k \in 1..Len(c.artifacts.phone_numbers) :
           \E j \in 1..Len(session.phone_numbers) :
               session.phone_numbers[j].number = c.artifacts.phone_numbers[k].number

(* POST /process of the evaluation server as the steps of its worker on    *)
(* the store: the session is ensured, the agent answers, the intelligence  *)
(* is merged, the response is built from the store and returned            *)
EvalBegin(r, session_id, history, message_text) ==
    /\ inflight[r].pc = "idle"
    /\ message_text # EmptyText /\ ~ReplayRaises(history)
    /\ \E a \in {process_api_message(
                     rebuild_agent_from_history_eval(NewAgent, history),
                     agent_survival_idx,
                     [message |-> Str(message_text), text |-> Absent, content |-> Absent],
                     FALSE)} :
           /\ a.survival_idx <= MaxSurvival
           /\ agent_survival_idx' = a.survival_idx
           /\ _session_store' = _get_or_create_session(_session_store, session_id, now)
           /\ inflight' = [inflight EXCEPT ![r] =
                  [ pc |-> "merge", session_id |-> session_id,
                    artifacts |-> a.agent.memory.cumulative_artifacts,
                    keywords |-> SuspiciousKeywords(history, message_text),
                    counted |-> 0, stored |-> FALSE,
                    response |-> _build_export(EmptyStore, session_id) ]]
    /\ UNCHANGED <<agent, trace, phase, request, view, extracted, reply, merged, scorer,
                   _survival_counter, now, exported, osint, _session_last_intel,
                   callbacks>>

(* _update_session_intel *)
EvalUpdate(r) ==
    /\ inflight[r].pc = "merge"
    /\ \E c \in {inflight[r]} :
       \E store \in {_update_session_intel(_session_store, c.session_id, c.artifacts,
                                           c.keywords, c.keywords # {}, now)} :
           /\ _session_store' = store
           /\ inflight' = [inflight EXCEPT ![r] =
                  [c EXCEPT !.pc = "respond",
                            !.stored = /\ c.session_id \in DOMAIN store
                                       /\ IntelMerged(store[c.session_id], c),
                            !.counted =
                                IF c.session_id \in DOMAIN _session_store
                                THEN store[c.session_id].total_messages
                                       - _session_store[c.session_id].total_messages
                                ELSE 0]]
    /\ UNCHANGED <<agent, agent_survival_idx, trace, phase, request, view, extracted,
                   reply, merged, scorer, _survival_counter, now, exported, osint,
                   _session_last_intel, callbacks>>

(* the flags, _build_export and the response returned *)
EvalReturn(r) ==
    /\ inflight[r].pc = "respond"
    /\ RequestStep(r, [inflight[r] EXCEPT
                          !.pc = "returned",
                          !.response = _build_export(_session_store, inflight[r].session_id)],
                   _session_last_intel, callbacks)

EvalHistories ==
    { <<>>, <<[sender |-> "scammer", text |-> <<"verify your number">>]>> }

EvalMessages == { <<"hello there">>, <<"send to user@ybl">> }

(* /process requests of one session beside each other and beside /reset *)
NextEval ==
    \/ \E r \in Requests, history \in EvalHistories, message_text \in EvalMessages :
           EvalBegin(r, Primary, history, message_text)
    \/ \E r \in Requests : EvalUpdate(r)
    \/ \E r \in Requests : EvalReturn(r)
    \/ ResetSession(Primary)

SpecEval == InitFresh /\ [][NextEval]_vars

(* a started thread is scheduled until it has ended (the process is not    *)
(* shut down); a module call returns or raises within its timeout          *)
SpecOsintFair == SpecOsint /\ WF_vars(ThreadStep(1))

(* two fresh sessions fed the same input, one after the other *)
ProcessBoth(input_json, empty1, empty2) ==
    /\ Len(trace["s1"]) < MaxTurns
    /\ \E r1 \in {process_api_message(agent["s1"], agent_survival_idx, input_json, empty1)} :
       \E r2 \in {process_api_message(agent["s2"], r1.survival_idx, input_json, empty2)} :
           /\ r2.survival_idx <= 2 * MaxSurvival
           /\ agent' = [agent EXCEPT !["s1"] = r1.agent, !["s2"] = r2.agent]
           /\ agent_survival_idx' = r2.survival_idx
           /\ trace' = [trace EXCEPT !["s1"] = Append(@, r1.output),
                                     !["s2"] = Append(@, r2.output)]
    /\ phase' = [s \in Sessions |-> "live"]
    /\ UNCHANGED <<request, view, extracted, reply, merged, scorer, serverVars, osint>>

NextPair ==
    \E input_json \in InputJsons, empty1 \in BOOLEAN, empty2 \in BOOLEAN :
        ProcessBoth(input_json, empty1, empty2)

SpecPair == InitFresh /\ [][NextPair]_vars

(* two sessions of one process, their requests interleaved in any order *)
ProcessAny(s, input_json, rendered_empty) ==
    /\ SeqSum([i \in 1..Len(SessionOrder) |-> Len(trace[SessionOrder[i]])]) < MaxTurns
    /\ Process(s, input_json, rendered_empty)

NextSessions ==
    \E s \in Sessions, input_json \in InputJsons, rendered_empty \in BOOLEAN :
        ProcessAny(s, input_json, rendered_empty)
SpecSessions == InitFresh /\ [][NextSessions]_vars

(***************************************************************************)
(* Properties                                                              *)
(***************************************************************************)
Outputs(s) == { trace[s][i] : i \in 1..Len(trace[s]) }
Accepted(s) == { e \in Outputs(s) : ~e.error }

(* C1: a message that matches a jailbreak pattern and a force-extract      *)
(* pattern is answered in state DEFLECT, never EXTRACT, whatever the       *)
(* session's state was.                                                    *)
C1_JailbreakBeatsForceExtract ==
    \A s \in Sessions : \A e \in Accepted(s) :
        (CheckJailbreak(e.message) /\ CheckExtractPatterns(e.message))
            => (e.state = "DEFLECT" /\ e.state # "EXTRACT")

C1_Witness ==
    \E e \in Accepted(Primary) :
        /\ CheckJailbreak(e.message) /\ CheckExtractPatterns(e.message)
        /\ e.state = "DEFLECT"
        /\ agent[Primary].state_machine.context.state_counts["EXTRACT"] > 0

(* C2: a message that matches a force-extract pattern and no jailbreak     *)
(* pattern is answered in state EXTRACT, whatever keywords it holds and    *)
(* whatever the scorer's thresholds say.                                   *)
C2_ForceExtractUnconditional ==
    \A s \in Sessions : \A e \in Accepted(s) :
        (CheckExtractPatterns(e.message) /\ ~CheckJailbreak(e.message))
            => e.state = "EXTRACT"

C2_Witness ==
    \E e \in Accepted(Primary) :
        /\ CheckExtractPatterns(e.message) /\ ~CheckJailbreak(e.message)
        /\ AnalyzeTranscript(e.message).info_request
        /\ AnalyzeTranscript(e.message).threat_level
        /\ e.state = "EXTRACT"

(* s has just been answered by process_api_message *)
ProcessedNow(s) == Len(trace'[s]) = Len(trace[s]) + 1

(* the state the cascade's first matching stage gives, from the context    *)
(* before the turn (pre) and the state machine after it (post)             *)
FirstStageOutcome(pre, post, text) ==
    LET a == AnalyzeTranscript(text)
        rotation_first == Rotation[(pre.default_rotation_index % RotationLen) + 1]
        rotation_second == Rotation[((pre.default_rotation_index + 1) % RotationLen) + 1]
        stages ==
          << [ matches |-> a.info_request, outcome |-> "DEFLECT" ],
             [ matches |-> should_force_extract(post.scorer), outcome |-> "EXTRACT" ],
             [ matches |-> a.urgency >= HighUrgency \/ a.threat_level, outcome |-> "STALL" ],
             [ matches |-> /\ a.transaction_verb
                           /\ post.context.transaction_verb_count >= 2
                           /\ Len(pre.turns) + 1 > 1
                           /\ pre.last_state = "CLARIFY",
               outcome |-> "CONFUSE" ],
             [ matches |-> a.money_mention,
               outcome |-> IF pre.last_state = "CLARIFY" THEN "CONFUSE" ELSE "CLARIFY" ],
             [ matches |-> prefer_extract(post.scorer), outcome |-> "EXTRACT" ],
             [ matches |-> a.is_question /\ pre.state_counts["EXTRACT"] < QuestionExtractLimit,
               outcome |-> "EXTRACT" ],
             [ matches |-> TRUE,
               outcome |-> IF rotation_first = pre.last_state THEN rotation_second
                                                              ELSE rotation_first ] >>
        first == CHOOSE k \in 1..Len(stages) :
                    stages[k].matches /\ \A j \in 1..(k - 1) : ~stages[j].matches
    IN  stages[first].outcome

(* C3: for a message matching neither a jailbreak nor a force-extract      *)
(* pattern the returned state is the outcome of the first stage that       *)
(* matches, in the order info request, scorer force-extract, high urgency  *)
(* or threat, early escalation, money, scorer prefer-extract, question     *)
(* with fewer than 3 EXTRACT visits, default rotation.                     *)
C3_FirstMatchingStageWins ==
    [][ \A s \in Sessions :
          ( /\ ProcessedNow(s)
            /\ ~Last(trace'[s]).error
            /\ ~CheckJailbreak(Last(trace'[s]).message)
            /\ ~CheckExtractPatterns(Last(trace'[s]).message) )
          => Last(trace'[s]).state =
                FirstStageOutcome(agent[s].state_machine.context,
                                  agent'[s].state_machine,
                                  Last(trace'[s]).message) ]_vars

(* the scorer forced EXTRACT on a message whose keyword urgency alone      *)
(* would have given STALL                                                  *)
C3_Witness ==
    \E e \in Accepted(Primary) :
        /\ ~CheckJailbreak(e.message) /\ ~CheckExtractPatterns(e.message)
        /\ e.analysis.urgency >= HighUrgency
        /\ ~e.analysis.info_request
        /\ e.state = "EXTRACT"

C5_RebuildLeavesStateMachineFresh ==
    \A s \in Sessions :
        phase[s] = "rebuilt"
            => /\ agent[s].state_machine.context = NewContext
               /\ agent[s].state_machine.scorer = NewScorer

(* C6: session_behavior_score never decreases from one turn to the next.   *)
C6_SessionBehaviorScoreMonotone ==
    [][ \A s \in Sessions :
          session_behavior_score(agent'[s].state_machine.scorer)
              >= session_behavior_score(agent[s].state_machine.scorer) ]_vars

(* a turn scored below the peak reached before it *)
C6_Witness ==
    LET sc == agent[Primary].state_machine.scorer
    IN  /\ turn_count(sc) >= 2
        /\ latest_score(sc) < session_behavior_score(sc)
        /\ cumulative_score(sc) < session_behavior_score(sc)
        /\ sc.scores[turn_count(sc) - 1].composite = session_behavior_score(sc)

(* the 10-digit tokens of the text extract was called on *)
TenDigitTokens ==
    { view.numbers[i].digits : i \in { j \in 1..Len(view.numbers) :
                                          Len(view.numbers[j].digits) = 10 } }

ListedAsPhone(d) ==
    \E k \in 1..Len(extracted.result.phone_numbers) :
        extracted.result.phone_numbers[k].number.digits \in {d, <<9, 1>> \o d}

ListedAsAccount(d) ==
    \E k \in 1..Len(extracted.result.bank_accounts) :
        extracted.result.bank_accounts[k].account_number = d

(* C7: one extract call never lists a 10-digit token of the message both   *)
(* as a phone number (with or without the country code) and as a bank      *)
(* account number.                                                         *)
C7_PhoneAndAccountExclusive ==
    extracted.called =>
        \A d \in TenDigitTokens : ~(ListedAsPhone(d) /\ ListedAsAccount(d))

C9_JailbreakTurnLeavesScorer ==
    [][ \A s \in Sessions :
          (ProcessedNow(s) /\ Last(trace'[s]).jailbreak_blocked)
          => LET before == agent[s].state_machine.scorer
                 after == agent'[s].state_machine.scorer
             IN  /\ after.history = before.history
                 /\ after.cumulative_score = before.cumulative_score
                 /\ after.session_behavior_score = before.session_behavior_score
                 /\ after.dimensions_fired = before.dimensions_fired ]_vars

(* C9 amended: a turn on which the jailbreak guard fires is answered in    *)
(* DEFLECT with a jailbreak deflection and runs neither the force-extract  *)
(* step nor the rule cascade (forced-extract count and rotation index      *)
(* stay), but the scorer has scored the message first: its turn history    *)
(* is one longer and its cumulative score, peak score and fired            *)
(* dimensions are those score_turn gives for the message.                  *)
C9_JailbreakTurnScoredThenDeflected ==
    [][ \A s \in Sessions :
          (ProcessedNow(s) /\ Last(trace'[s]).jailbreak_blocked)
          => LET before == agent[s].state_machine
                 after == agent'[s].state_machine
                 e == Last(trace'[s])
             IN  /\ e.state = "DEFLECT"
                 /\ e.template.list = JailbreakKey
                 /\ after.scorer = score_turn(before.scorer, e.message)
                 /\ Len(after.scorer.history) = Len(before.scorer.history) + 1
                 /\ after.context.forced_extract_count = before.context.forced_extract_count
                 /\ after.context.default_rotation_index
                        = before.context.default_rotation_index
                 /\ after.context.state_counts =
                        [before.context.state_counts EXCEPT !["DEFLECT"] = @ + 1]
                 /\ after.jailbreak_attempts = before.jailbreak_attempts + 1 ]_vars

(* the jailbreak turn came second and moved the cumulative score *)
C9_Witness ==
    /\ Len(trace[Primary]) = 2
    /\ ~trace[Primary][1].error
    /\ trace[Primary][2].jailbreak_blocked
    /\ LET sc == agent[Primary].state_machine.scorer
       IN  /\ turn_count(sc) >= 2
           /\ sc.scores[turn_count(sc)].composite # sc.scores[turn_count(sc) - 1].composite

(* the outputs of the accepted messages, oldest first *)
AcceptedSeq(s) == SelectSeq(trace[s], LAMBDA e : ~e.error)

C11_RepairedReplyValidates ==
    reply.stage = "enforced" => validate_response(reply.text)

(* a reply with an investigative phrase and a question mark that is not    *)
(* trailing failed the validation and was repaired                         *)
C11_Witness ==
    /\ reply.stage = "enforced"
    /\ ~validate_response(reply.clean)
    /\ HasInvestigative(reply.clean)
    /\ HasQuestionMark(reply.clean)
    /\ ~EndsWithQuestion(reply.clean)
    /\ reply.text # reply.clean

(* the six categories of an ExtractedArtifacts as sets *)
CategorySets(a) ==
    [ upi_ids |-> a.upi_ids, phishing_links |-> a.phishing_links,
      crypto_wallets |-> a.crypto_wallets, emails |-> a.emails,
      phone_numbers |-> SeqRange(a.phone_numbers),
      bank_accounts |-> SeqRange(a.bank_accounts) ]

(* C12: merging B into A again leaves every category's deduplicated set    *)
(* as the first merge left it, and merging an instance into itself         *)
(* changes no category's set                                               *)
C12_MergeIdempotent ==
    /\ merged.merges >= 1 => CategorySets(merged.a) = CategorySets(merged.once)
    /\ merged.other = "self" => CategorySets(merged.a) = CategorySets(merged.start)

(* B was merged twice into an A that it extended with a phone number and a *)
(* payment handle or account                                               *)
C12_Witness ==
    /\ merged.other = "b"
    /\ merged.merges = 2
    /\ Len(merged.a.phone_numbers) > Len(merged.start.phone_numbers)
    /\ merged.start.phone_numbers # <<>>
    /\ CategorySets(merged.a) # CategorySets(merged.start)

(* the outputs session t would return next, for every input *)
NextOutputs(ag, idx) ==
    [ input_json \in InputJsons, rendered_empty \in BOOLEAN |->
        process_api_message(ag, idx, input_json, rendered_empty).output ]

(* C13: processing a message in one session changes nothing observable in  *)
(* another: what the other session returns next, for any message, is what  *)
(* it would have returned had the first message not been processed         *)
C13_OtherSessionUnaffected ==
    [][\A s \in Sessions, t \in Sessions :
          (s # t /\ trace'[s] # trace[s] /\ trace'[t] = trace[t])
          => NextOutputs(agent'[t], agent_survival_idx')
               = NextOutputs(agent[t], agent_survival_idx)]_vars

(* the turn just answered for s was decided by the rule cascade and no     *)
(* stage above early escalation matched                                    *)
ReachedEarlyEscalation(s) ==
    /\ ProcessedNow(s)
    /\ ~Last(trace'[s]).error
    /\ ~CheckJailbreak(Last(trace'[s]).message)
    /\ ~CheckExtractPatterns(Last(trace'[s]).message)
    /\ ~AnalyzeTranscript(Last(trace'[s]).message).info_request
    /\ ~should_force_extract(agent'[s].state_machine.scorer)
    /\ ~(\/ AnalyzeTranscript(Last(trace'[s]).message).urgency >= HighUrgency
         \/ AnalyzeTranscript(Last(trace'[s]).message).threat_level)

(* the scammer turns the context held before this one that contain a       *)
(* transaction verb                                                        *)
PriorVerbTurns(ctx) ==
    { i \in 1..Len(ctx.turns) :
        ctx.turns[i].role = "scammer" /\ Hits(ctx.turns[i].text, "txVerbs") # {} }

(* the conditions of the early-escalation stage as the claim words them *)
EscalationConditions(ctx, text) ==
    /\ Hits(text, "txVerbs") # {}
    /\ Cardinality(PriorVerbTurns(ctx)) + 1 >= 2
    /\ Len(ctx.turns) + 1 >= 2
    /\ ctx.last_state = "CLARIFY"

(* the early-escalation stage fired on the turn just answered for s *)
EscalationFired(s) ==
    EarlyEscalation(RecordInbound(agent[s].state_machine.context, Last(trace'[s]).message),
                    FullAnalysis(Last(trace'[s]).message))

(* C14: when no higher stage matched, the early-escalation stage fires     *)
(* (and gives CONFUSE) exactly when the message holds a transaction verb,  *)
(* an earlier scammer turn of the session held one, two turns have         *)
(* elapsed and the preceding state is CLARIFY; it never fires after any    *)
(* other preceding state                                                   *)
C14_EarlyEscalationExact ==
    [][ \A s \in Sessions :
          ReachedEarlyEscalation(s)
          => /\ EscalationFired(s)
                  <=> EscalationConditions(agent[s].state_machine.context,
                                           Last(trace'[s]).message)
             /\ EscalationFired(s) => Last(trace'[s]).state = "CONFUSE"
             /\ agent[s].state_machine.context.last_state # "CLARIFY"
                  => ~EscalationFired(s) ]_vars

(* a second transaction verb, with no money keyword, right after a CLARIFY *)
(* turn was answered in CONFUSE                                            *)
C14_Witness ==
    /\ Len(trace[Primary]) >= 2
    /\ LET e == Last(trace[Primary])
           before == trace[Primary][Len(trace[Primary]) - 1]
       IN  /\ ~e.error /\ ~before.error
           /\ before.state = "CLARIFY"
           /\ e.analysis.transaction_verb
           /\ ~e.analysis.money_mention
           /\ ~e.analysis.info_request /\ ~e.analysis.threat_level
           /\ Hits(before.message, "txVerbs") # {}
           /\ e.state = "CONFUSE"

(* the turn just answered for s was resolved by the default rotation: only *)
(* _select_default_state advances the rotation index                       *)
ResolvedByRotation(s) ==
    /\ ProcessedNow(s)
    /\ ~Last(trace'[s]).error
    /\ agent'[s].state_machine.context.default_rotation_index
          > agent[s].state_machine.context.default_rotation_index

ResolvedByMoney(s) ==
    /\ ReachedEarlyEscalation(s)
    /\ ~EscalationFired(s)
    /\ AnalyzeTranscript(Last(trace'[s]).message).money_mention

(* C16: a turn resolved by the money-mention stage is answered in CONFUSE  *)
(* exactly when the session's preceding state is CLARIFY and in CLARIFY    *)
(* otherwise, so consecutive turns resolved by it alternate between the    *)
(* two states                                                              *)
C16_MoneyAlternates ==
    [][ \A s \in Sessions :
          ResolvedByMoney(s)
          => /\ Last(trace'[s]).state \in {"CLARIFY", "CONFUSE"}
             /\ Last(trace'[s]).state = "CONFUSE"
                  <=> agent[s].state_machine.context.last_state = "CLARIFY"
             /\ (/\ trace[s] # <<>>
                 /\ ~Last(trace[s]).error
                 /\ Last(trace[s]).analysis.money_mention
                 /\ Last(trace[s]).state \in {"CLARIFY", "CONFUSE"})
                  => Last(trace'[s]).state # Last(trace[s]).state ]_vars

(* two consecutive turns resolved by the money-mention stage, neither      *)
(* holding a transaction verb, answered CLARIFY then CONFUSE               *)
C16_Witness ==
    /\ Len(trace[Primary]) >= 2
    /\ LET e == Last(trace[Primary])
           before == trace[Primary][Len(trace[Primary]) - 1]
       IN  /\ ~e.error /\ ~before.error
           /\ before.analysis.money_mention /\ e.analysis.money_mention
           /\ ~before.analysis.transaction_verb /\ ~e.analysis.transaction_verb
           /\ before.state = "CLARIFY"
           /\ e.state = "CONFUSE"

(* the exact running mean of the composites is at least t thousandths *)
MeanAtLeast(sc, t) == FracGeq(sc.cumulative_score, Frac(t, 1))

(* C17: force-extract is true exactly when the running mean of the         *)
(* composites is at least 0.60 or the latest composite at least 0.70,      *)
(* prefer-extract exactly when the running mean is at least 0.40; neither  *)
(* fires on a mean strictly below its threshold                            *)
C17_TriggersMatchMean ==
    /\ should_force_extract(scorer)
          <=> (MeanAtLeast(scorer, ForceCumulative) \/ latest_score(scorer) >= ForceLatest)
    /\ prefer_extract(scorer) <=> MeanAtLeast(scorer, PreferCumulative)

(* the composites and the running means of the turns scored so far *)
ScoresSeen(scores) ==
         { Frac(scores[k].composite, 1) : k \in 1..Len(scores) }
    \cup { CumulativeOf(SubSeq(scores, 1, k)) : k \in 1..Len(scores) }

RoundedFrac(f) == RoundDiv(f.num, f.den)

(* C18: after every turn session_behavior_score is the maximum of all      *)
(* composites and all running means seen so far, so it is at least the     *)
(* current running mean and at least every composite                       *)
C18_PeakIsMaximum ==
    scorer.scores # <<>>
    => /\ scorer.session_behavior_score \in ScoresSeen(scorer.scores)
       /\ \A v \in ScoresSeen(scorer.scores) :
             /\ FracGeq(scorer.session_behavior_score, v)
             /\ session_behavior_score(scorer) >= RoundedFrac(v)
       /\ session_behavior_score(scorer) >= cumulative_score(scorer)
       /\ \A k \in 1..Len(scorer.scores) :
             session_behavior_score(scorer) >= scorer.scores[k].composite

(* the peak was set by an earlier turn: it is above the latest composite   *)
(* and above the current running mean                                      *)
C18_Witness ==
    /\ Len(scorer.scores) >= 2
    /\ session_behavior_score(scorer) > latest_score(scorer)
    /\ session_behavior_score(scorer) > cumulative_score(scorer)
    /\ session_behavior_score(scorer) = scorer.scores[1].composite

(* C19: escalation_multiplier is always one of 0.0, 0.2, 0.4, 0.6, 0.8,    *)
(* 1.0: the number of fired dimensions, at most five, divided by five      *)
C19_MultiplierSteps ==
    /\ escalation_multiplier(scorer) \in {0, 200, 400, 600, 800, 1000}
    /\ Cardinality(scorer.dimensions_fired) <= NumDimensions
    /\ escalation_multiplier(scorer) * NumDimensions
          = 1000 * Cardinality(scorer.dimensions_fired)

(* three of the five dimensions have fired: the multiplier is 0.6 *)
C19_Witness ==
    /\ turn_count(scorer) >= 2
    /\ Cardinality(scorer.dimensions_fired) = 3
    /\ escalation_multiplier(scorer) = 600

(* the dimensions whose weighted component added a positive value to the   *)
(* composite of the turn                                                   *)
Contributed(ts) ==
       (IF W_URGENCY * ts.delta_urgency > 0 THEN {"urgency"} ELSE {})
    \cup (IF W_PRESSURE * ts.pressure_lex > 0 THEN {"pressure"} ELSE {})
    \cup (IF W_CREDENTIAL * ts.credential_repeat > 0 THEN {"credential"} ELSE {})
    \cup (IF W_DELAY * (Unit - ts.delay_tolerance) > 0 THEN {"delay"} ELSE {})
    \cup (IF W_POLITENESS * ts.politeness_shift > 0 THEN {"politeness"} ELSE {})

(* C20: a dimension is counted in escalation_multiplier if and only if its *)
(* weighted component added a positive value to the composite of at least  *)
(* one turn scored so far                                                  *)
C20_CountedIffContributed ==
    scorer.dimensions_fired
       = UNION { Contributed(scorer.scores[k]) : k \in 1..Len(scorer.scores) }

(* the digit runs of the view that are bare 10-digit tokens *)
BareTenDigit(v) ==
    { v.numbers[j].digits : j \in { k \in 1..Len(v.numbers) :
                                       ~v.numbers[k].plus /\ Len(v.numbers[k].digits) = 10 } }

(* the token d is in the phone list, as it stands or with the country code *)
ReportedAsPhone(a, d) ==
    \E k \in 1..Len(a.phone_numbers) :
        a.phone_numbers[k].number \in {NumStr(FALSE, d), WithCountryCode(d)}

(* the token d is in the bank-account list *)
ReportedAsAccount(a, d) ==
    \E k \in 1..Len(a.bank_accounts) : a.bank_accounts[k].account_number = d

(* C21: a bare 10-digit token whose first digit is not 6, 7, 8 or 9 is     *)
(* never reported as a phone number by extract, whatever the keywords      *)
C21_NonMobileNeverPhone ==
    extracted.called
    => \A d \in BareTenDigit(view) :
          d[1] \notin {6, 7, 8, 9} => ~ReportedAsPhone(extracted.result, d)

(* C22: a bare 10-digit token with no hit in the operator prefix table, in *)
(* a message with neither a phone nor a banking context keyword, is in     *)
(* neither the phone list nor the bank-account list                        *)
C22_NoContextDropped ==
    (extracted.called /\ ~view.phone_context /\ ~view.banking_context)
    => \A d \in BareTenDigit(view) :
          ~Validate(d).is_mobile
          => /\ ~ReportedAsPhone(extracted.result, d)
             /\ ~ReportedAsAccount(extracted.result, d)

RECURSIVE WellFormed(_)
WellFormed(history) ==
    IF history = <<>> THEN <<>>
    ELSE IF Head(history) \in MalformedEntries THEN WellFormed(Tail(history))
    ELSE <<Head(history)>> \o WellFormed(Tail(history))

(* C24: during history replay a malformed prior turn is skipped and every  *)
(* well-formed turn of the history is still processed; a malformed entry   *)
(* aborts neither the replay nor the processing of the current message     *)
C24_MalformedTurnSkipped ==
    \A s \in Sessions :
        /\ phase[s] # "aborted"
        /\ (phase[s] = "rebuilt" /\ request[s].server = "stateless")
              => agent[s].memory
                   = rebuild_agent_from_history_stateless(
                         NewAgent, WellFormed(request[s].history)).memory
        /\ (phase[s] = "rebuilt" /\ request[s].server = "eval")
              => agent[s] = rebuild_agent_from_history_eval(
                                NewAgent, WellFormed(request[s].history))

(* no turn counter of the metrics m2 is below its value in m1 *)
CountersNotBelow(m2, m1) ==
    /\ m2.scammer_turns >= m1.scammer_turns
    /\ m2.agent_turns >= m1.agent_turns
    /\ m2.total_turns >= m1.total_turns

(* C25: the scammer, agent and total turn counters of a session never      *)
(* decrease while it processes messages; a counter becomes smaller only in *)
(* a step that resets the session's memory (a rebuild from a history)      *)
C25_CountersOnlyIncrease ==
    [][ \A s \in Sessions :
          /\ request'[s] = request[s]
                => CountersNotBelow(agent'[s].memory.metrics, agent[s].memory.metrics)
          /\ ProcessedNow(s) /\ ~Last(trace'[s]).error
                => /\ agent'[s].memory.metrics.scammer_turns
                        = agent[s].memory.metrics.scammer_turns + 1
                   /\ agent'[s].memory.metrics.agent_turns
                        = agent[s].memory.metrics.agent_turns + 1
                   /\ agent'[s].memory.metrics.total_turns
                        = agent[s].memory.metrics.total_turns + 2 ]_vars

(* a session that answered three messages earlier has answered two more,   *)
(* the last a jailbreak attempt                                            *)
C25_Witness ==
    /\ Len(trace[Primary]) = 2
    /\ ~trace[Primary][1].error
    /\ ~Last(trace[Primary]).error
    /\ Last(trace[Primary]).jailbreak_blocked
    /\ agent[Primary].memory.metrics.scammer_turns = 5
    /\ agent[Primary].memory.metrics.agent_turns = 5
    /\ agent[Primary].memory.metrics.total_turns = 10

(* the number of entries of a memory's turn log with the given role *)
LogCount(mem, role) ==
    Cardinality({ i \in 1..Len(mem.history) : mem.history[i].role = role })

(* C26: at every point the scammer-turn counter equals the number of       *)
(* scammer entries in the session's turn log and the total-turn counter    *)
(* the log's length, also for a session rebuilt from a history             *)
C26_CountersMatchLog ==
    \A s \in Sessions :
        /\ agent[s].memory.metrics.scammer_turns = LogCount(agent[s].memory, "scammer")
        /\ agent[s].memory.metrics.total_turns = Len(agent[s].memory.history)

(* C26 amended: the total-turn counter equals the log's length and the     *)
(* agent-turn counter the log's agent entries; the scammer-turn counter,   *)
(* which is the turn index reported for a message, equals the log's        *)
(* scammer entries plus the scammer entries with a non-empty text of the   *)
(* history the session was rebuilt from (none for a session not rebuilt)   *)
C26_CountersMatchLogAndHistory ==
    \A s \in Sessions :
        /\ agent[s].memory.metrics.total_turns = Len(agent[s].memory.history)
        /\ agent[s].memory.metrics.agent_turns = LogCount(agent[s].memory, "agent")
        /\ agent[s].memory.metrics.scammer_turns
              = LogCount(agent[s].memory, "scammer") + ScammerCount(request[s].history)
        /\ (trace[s] # <<>> /\ ~Last(trace[s]).error)
              => Last(trace[s]).engagement_turn
                   = LogCount(agent[s].memory, "scammer") + ScammerCount(request[s].history)

(* a session rebuilt from a history with two scammer turns answered the    *)
(* request's message as turn 3, its log holding that one scammer turn      *)
C26_Witness ==
    /\ phase[Primary] = "served"
    /\ ScammerCount(request[Primary].history) = 2
    /\ ~Last(trace[Primary]).error
    /\ Last(trace[Primary]).engagement_turn = 3
    /\ LogCount(agent[Primary].memory, "scammer") = 1
    /\ agent[Primary].memory.metrics.total_turns = 2

(* C27: on every turn on which a jailbreak is detected the reply template  *)
(* is an entry of the jailbreak deflection list, the one the session's own *)
(* cycling index for that list points at, and the index then moves on by   *)
(* one; the template is not taken from a state's list, and the text        *)
(* rendered from it is that deflection with no blank filled, or nothing.   *)
C27_JailbreakAnsweredByDeflection ==
    [][ \A s \in Sessions :
          (ProcessedNow(s) /\ Last(trace'[s]).jailbreak_blocked)
              => LET e      == Last(trace'[s])
                     before == agent[s].state_machine.context.template_index
                     after  == agent'[s].state_machine.context.template_index
                 IN  /\ e.template.list = JailbreakKey
                     /\ e.template.list \notin AgentState
                     /\ e.template.index \in 0..(NumJailbreakDeflections - 1)
                     /\ e.template.index = before[JailbreakKey] % NumJailbreakDeflections
                     /\ after[JailbreakKey] = before[JailbreakKey] + 1
                     /\ \A st \in AgentState : after[st] = before[st]
                     /\ e.rendered \in
                            { EmptyReply,
                              [kind |-> "template", list |-> JailbreakKey,
                               index |-> e.template.index, fill_turn |-> 0] } ]_vars

(* a session's second jailbreak attempt in a row is answered by the second *)
(* deflection of the list                                                  *)
C27_Witness ==
    /\ Len(trace[Primary]) = 2
    /\ trace[Primary][1].jailbreak_blocked
    /\ trace[Primary][2].jailbreak_blocked
    /\ trace[Primary][1].template = [list |-> JailbreakKey, index |-> 0]
    /\ trace[Primary][2].template = [list |-> JailbreakKey, index |-> 1]
    /\ trace[Primary][2].response.kind = "template"

(* C28: building the export record of a session id, known to the store or  *)
(* not, changes no session state: the store holds the same session ids     *)
(* after the export as before it and the same record for each of them.     *)
C28_ExportChangesNoState ==
    [][ exported'.serial # exported.serial
          => /\ DOMAIN _session_store' = DOMAIN _session_store
             /\ \A k \in DOMAIN _session_store : _session_store'[k] = _session_store[k]
             /\ exported'.response = _build_export(_session_store', exported'.session_id) ]_vars

(* an id the store never held was exported while the store held a session  *)
(* with a processed message                                                *)
C28_Witness ==
    /\ exported.session_id # ""
    /\ ~exported.known
    /\ exported.response.agentNotes = "No session data found."
    /\ DOMAIN _session_store = {Primary}
    /\ _session_store[Primary].total_messages >= 1

C30_ArtifactsNeverMutated ==
    \A t \in DOMAIN osint.tasks :
        /\ DOMAIN osint.tasks[t].artifacts_dict = DOMAIN osint.tasks[t].at_dispatch
        /\ \A k \in DOMAIN osint.tasks[t].at_dispatch :
               osint.tasks[t].artifacts_dict[k] = osint.tasks[t].at_dispatch[k]

(* an enrichment completed after a VirusTotal call and a Shodan call       *)
(* raised, over a dict with phishing links, emails and other artifacts     *)
C30_Witness ==
    \E t \in DOMAIN osint.tasks :
        LET o == osint.tasks[t] IN
        /\ o.pc = "done"
        /\ o.enrichment.status = "completed"
        /\ \E j \in 1..Len(o.enrichment.virustotal) :
               o.enrichment.virustotal[j].error # ""
        /\ \E j \in 1..Len(o.enrichment.shodan) :
               o.enrichment.shodan[j].error # ""
        /\ "upi_ids" \in DOMAIN o.artifacts_dict
        /\ o.artifacts_dict["phishing_links"] # <<>>
        /\ o.artifacts_dict["emails"] # <<>>

(* C40: for every processed message the agent turn appended to the         *)
(* session's conversation log, and the one appended to the state machine's *)
(* turn list, carry the reply text returned to the caller for that turn,   *)
(* a survival line included.                                               *)
C40_LogCarriesReturnedReply ==
    [][ \A s \in Sessions :
          (ProcessedNow(s) /\ ~Last(trace'[s]).error)
              => LET e     == Last(trace'[s])
                     log   == agent'[s].memory.history
                     turns == agent'[s].state_machine.context.turns
                 IN  /\ Last(log).role = "agent"
                     /\ Last(log).message = e.response
                     /\ Last(turns).role = "agent"
                     /\ Last(turns).text = e.response ]_vars

(* C38: after a reset a session is in the state of a newly created one:    *)
(* its counters, the jailbreak-attempt counter among them, its scorer,     *)
(* rotation index and template indices have their initial values, and its  *)
(* session summary is that of a fresh instance.                            *)
C38_ResetLikeNew ==
    \A s \in Sessions :
        (request[s].server = "reset" /\ phase[s] = "new")
            => /\ agent[s] = NewAgent
               /\ get_session_summary(agent[s]) = get_session_summary(NewAgent)

(* the live session went on, from the exchanges the rebuilt one was given, *)
(* with the message the rebuilt one was sent                               *)
SameCourse(n) ==
    /\ phase["s2"] = "served"
    /\ n = Len(request["s2"].history) \div 2
    /\ Len(trace["s1"]) = n + 1
    /\ \A i \in 1..(n + 1) : ~trace["s1"][i].error
    /\ ~trace["s2"][1].error
    /\ ExchangeHistory(SubSeq(trace["s1"], 1, n)) = request["s2"].history
    /\ trace["s1"][n + 1].message = trace["s2"][1].message

(* C39: an agent rebuilt by the evaluation server from the first n         *)
(* exchanges of a live session and then given message n+1 selects the      *)
(* state and the reply template the live agent selects for message n+1.    *)
C39_RebuiltSelectsAsLive ==
    \A n \in 0..MaxTurns :
        SameCourse(n)
            => /\ trace["s2"][1].state = trace["s1"][n + 1].state
               /\ trace["s2"][1].template = trace["s1"][n + 1].template

(* the state alone is the live agent's: the replay runs every scammer     *)
(* turn through analyze_and_transition                                     *)
RebuiltSelectsLiveState ==
    \A n \in 0..MaxTurns :
        SameCourse(n) => trace["s2"][1].state = trace["s1"][n + 1].state

SkippedEnrichment == [NewEnrichment EXCEPT !.status = "skipped", !.safe_mode = TRUE]

(* C32: a dispatch made in safe mode starts no thread and makes no module  *)
(* call: it stores an enrichment of status "skipped" with empty result     *)
(* lists for the session, and the enrichment of that dispatch stays so,    *)
(* never "running" and never "completed".                                  *)
C32_SafeModeSkips ==
    [][ \A k \in DOMAIN osint'.tasks :
            osint'.tasks[k].safe_mode
                => /\ osint'.tasks[k].pc = "skipped"
                   /\ osint'.tasks[k].enrichment = SkippedEnrichment
                   /\ ~ENABLED ThreadStep(k)
                   /\ k \notin DOMAIN osint.tasks
                          => get_results(osint', osint'.tasks[k].session_id)
                                 = [ found |-> TRUE, task |-> k,
                                     result |-> SkippedEnrichment ] ]_vars

(* a safe-mode dispatch over phishing links and emails, with both API keys *)
(* and Holehe asked for                                                    *)
C32_Witness ==
    \E k \in DOMAIN osint.tasks :
        /\ osint.tasks[k].safe_mode
        /\ osint.tasks[k].vt_key /\ osint.tasks[k].shodan_key
        /\ ~osint.tasks[k].skip_holehe
        /\ "phishing_links" \in DOMAIN osint.tasks[k].artifacts_dict
        /\ osint.tasks[k].artifacts_dict["phishing_links"] # <<>>
        /\ osint.tasks[k].artifacts_dict["emails"] # <<>>
        /\ get_results(osint, Primary).result.status = "skipped"

(* every enrichment dispatched for the session has finished *)
AllFinished ==
    /\ osint.tasks # <<>>
    /\ \A k \in DOMAIN osint.tasks : osint.tasks[k].pc \in {"done", "skipped"}

(* C37: once every enrichment dispatched for a session has finished,       *)
(* get_results returns for the session the result of the one dispatched    *)
(* last, in whatever order the threads started and finished.               *)
C37_LatestDispatchStored ==
    AllFinished
        => /\ get_results(osint, Primary).found
           /\ get_results(osint, Primary).task = Len(osint.tasks)

(* a module of the enrichment is called in this step for task k *)
ModuleCalled(k) ==
    /\ k \in DOMAIN osint.tasks
    /\ \/ Len(osint'.tasks[k].enrichment.virustotal) > Len(osint.tasks[k].enrichment.virustotal)
       \/ Len(osint'.tasks[k].enrichment.holehe) > Len(osint.tasks[k].enrichment.holehe)
       \/ Len(osint'.tasks[k].enrichment.shodan) > Len(osint.tasks[k].enrichment.shodan)

(* C33: the response of a /process request has been returned before any   *)
(* module of the enrichment dispatched for that request is called.         *)
C33_ResponseBeforeEnrichment ==
    [][ \A r \in Requests :
            ModuleCalled(inflight[r].task) => inflight[r].pc = "returned" ]_vars

(* C36: the callbacks sent for a session since its last reset carry        *)
(* strictly increasing intelligence counts, each sent at three scammer     *)
(* turns or more and with a count above the one the callback before it     *)
(* recorded, whatever the interleaving of the requests.                    *)
C36_CallbacksIncrease ==
    \A s \in Sessions :
        \A i \in 1..Len(callbacks[s]) :
            /\ callbacks[s][i].turns >= MinCallbackTurns
            /\ i > 1 => callbacks[s][i].intel_count > callbacks[s][i - 1].intel_count

(* C34: an export is atomic with respect to the merges of intelligence     *)
(* into the same session: what it returns is the export of the session as  *)
(* it stood at one moment.                                                 *)
C34_ExportAtomic ==
    \A r \in Requests :
        (inflight[r].pc = "exported" /\ inflight[r].seen # <<>>)
            => \E i \in 1..Len(inflight[r].seen) :
                   inflight[r].response
                       = ExportOf(inflight[r].session_id, inflight[r].seen[i])

(* C35: a /process request that completes normally for a non-empty message *)
(* has left its session in the store with the message counted once and its *)
(* intelligence merged, whatever the interleaving with other /process and  *)
(* /reset requests.                                                        *)
C35_ProcessedMessageStored ==
    \A r \in Requests :
        (inflight[r].pc = "returned" /\ "counted" \in DOMAIN inflight[r])
            => inflight[r].counted = 1 /\ inflight[r].stored

====
